---------------------------- MODULE Spec2Model ----------------------------
(***************************************************************************)
(* Undo/redo command log of the comic-strip scene editor.                  *)
(*                                                                         *)
(* The scene is three collections (characters, bubbles, strokes) of owned  *)
(* entities.  An entity is modelled by its identity (the address of the    *)
(* object a unique_ptr owns); nullptr is NULL.  A destroyed entity's       *)
(* identity may be handed out again by the allocator.  Commands are        *)
(* records holding the fields of the C++ command classes.                  *)
(*                                                                         *)
(* Besides the manager, three objects are modelled on their own: a command *)
(* called directly (SpecDirect), a SpeechBubble with its text layout       *)
(* (SpecBubble) and a BrushStroke with its point sequence and bounding box *)
(* (SpecStroke).  Floating-point values of the stroke are exact rationals. *)
(***************************************************************************)
EXTENDS Integers, Sequences, FiniteSets, TLC

VARIABLES
    characters,   \* main.cpp: std::vector<std::unique_ptr<Character>>
    bubbles,      \* main.cpp: std::vector<std::unique_ptr<SpeechBubble>>
    strokes,      \* main.cpp: std::vector<std::unique_ptr<BrushStroke>>
    fontSize,     \* SpeechBubble::fontSize_ of every live bubble
    ub,           \* TRUE once an operation with undefined behaviour has run
    undoStack,    \* CommandManager::undoStack
    redoStack,    \* CommandManager::redoStack
    lastOp,       \* observer: the CommandManager call made last
    phase,        \* observer: position in an execute; undo; redo round trip
    preExec,      \* observer: the scene just before the last executeCommand
    postExec,     \* observer: scene and log top just after the last executeCommand
    run,          \* observer: the commands executed since construction/clear,
                  \*   while no undo or redo has been called
    timeline,     \* observer: the scene before and after each logged command
    nOps,         \* observer: the number of CommandManager calls made, up to MaxOps
    added,        \* observer: the entity each logged Add command was built with
    direct,       \* a command called directly (not through the manager)
    bubble,       \* one SpeechBubble object (its members); in SpecSession the
                  \*   text_ and fontName_ of every bubble that exists
    textures,     \* AssetManager::m_textures: the keys that hold a texture
    stroke,       \* one BrushStroke object (its members)
    last,         \* observer: the last call made on the object under study
    character,    \* one Character object (its members)
    fonts,        \* AssetManager::m_fonts: the names that hold a font
    editor        \* main.cpp: the locals of main that the event handlers share

progVars == <<characters, bubbles, strokes, fontSize, ub, undoStack, redoStack>>
obsVars  == <<lastOp, phase, preExec, postExec, run, timeline, nOps, added>>
unitVars == <<direct, bubble, textures, stroke, last, character, fonts, editor>>
vars     == <<characters, bubbles, strokes, fontSize, ub, undoStack, redoStack,
              lastOp, phase, preExec, postExec, run, timeline, nOps, added,
              direct, bubble, textures, stroke, last, character, fonts, editor>>

-----------------------------------------------------------------------------
(* Bounds of the model *)

MaxOps == 5           \* Spec: the number of CommandManager calls explored
MaxPopulatedOps == 3  \* SpecPopulated: the number of calls explored
MaxFullOps == 3       \* SpecFull: the number of calls explored
MaxDeepStrokes == 102 \* SpecHistory: strokes are added only below this length
MaxDirectCalls == 3   \* SpecDirect: the number of direct execute()/undo() calls
MaxCoord == 3         \* SpecStroke: the largest x coordinate of an input point
MaxStrokeCalls == 3   \* SpecStroke: the number of beginAt/addPoint calls
MaxHitStrokeCalls == 2 \* SpecEntity: the number of beginAt/addPoint calls
CanvasExtent == 300   \* SpecCanvas: moves keep the coordinates within this distance of 0
MaxSpawnEvents == 3   \* SpecSpawn: the number of palette clicks and key presses
MaxWrapLen == 5       \* SpecWrap: the characters of a text handed to setText
MaxEditorEvents == 5  \* SpecResize: the number of mouse events
MaxSessionEvents == 6 \* SpecSession: the number of events handled
MaxTyped == 2         \* SpecSession: the characters typed into one bubble

(* Program constants *)

NULL == 0
maxHistorySize == 100
DefaultFontSize == 24
SidebarW == 200
FontSizes == {DefaultFontSize, 30}

-----------------------------------------------------------------------------
(* std::vector helpers; positions are the 0-based positions of the code *)

back(v) == v[Len(v)]
pop_back(v) == SubSeq(v, 1, Len(v) - 1)
erase(v, i) == SubSeq(v, 1, i) \o SubSeq(v, i + 2, Len(v))
insert(v, i, e) == SubSeq(v, 1, i) \o <<e>> \o SubSeq(v, i + 1, Len(v))
Range(v) == {v[i] : i \in 1..Len(v)}

(* The state the program's functions act on, as one record *)
State ==
    [characters |-> characters, bubbles |-> bubbles, strokes |-> strokes,
     fontSize |-> fontSize, ub |-> ub,
     undoStack |-> undoStack, redoStack |-> redoStack]

Kinds ==
    {"AddCharacter", "AddBubble", "AddStroke",
     "DeleteCharacter", "DeleteBubble", "ChangeBubbleFontSize"}

(* A command object.  payload is the owned entity (character / bubble /     *)
(* stroke member), target the raw SpeechBubble* of a font-size command.     *)
Command(id, kind, payload, index, target, old, new) ==
    [id |-> id, kind |-> kind, payload |-> payload, index |-> index,
     target |-> target, previousFontSize |-> old, newFontSize |-> new,
     isExecuted |-> FALSE]

-----------------------------------------------------------------------------
(* Entities *)

(* SpeechBubble::setFontSize through a SpeechBubble*: a pointer to a bubble *)
(* that no longer exists is undefined behaviour.                            *)
SpeechBubble_setFontSize(s, b, size) ==
    IF b \in DOMAIN s.fontSize
    THEN [s EXCEPT !.fontSize = [@ EXCEPT ![b] = size]]
    ELSE [s EXCEPT !.ub = TRUE]

(* SpeechBubble::SpeechBubble: a new bubble b with the constructor's font size *)
SpeechBubble_new(s, b) ==
    [s EXCEPT !.fontSize = [x \in (DOMAIN @) \cup {b} |->
                               IF x = b THEN DefaultFontSize ELSE @[x]]]

(* ~unique_ptr<SpeechBubble>: the bubbles in dead cease to exist *)
DestroyBubbles(s, dead) ==
    [s EXCEPT !.fontSize = [b \in (DOMAIN @) \ dead |-> @[b]]]

OwnsBubble(c) == c.kind \in {"AddBubble", "DeleteBubble"} /\ c.payload # NULL

(* ~Command for every command of cmds: the payloads die with their commands *)
DestroyCommands(s, cmds) ==
    DestroyBubbles(s, {cmds[i].payload : i \in {j \in 1..Len(cmds) : OwnsBubble(cmds[j])}})

-----------------------------------------------------------------------------
(* Concrete commands: each function maps (command, state) to the command    *)
(* and the state after the call.                                            *)

Result(c, s) == [cmd |-> c, s |-> s]

(* mutant: the character is put at the front of the collection *)
AddCharacterCommand_execute_pushFront(c, s) ==
    Result([c EXCEPT !.payload = NULL, !.isExecuted = TRUE],
           [s EXCEPT !.characters = <<c.payload>> \o @])

AddCharacterCommand_execute(c, s) ==
    Result([c EXCEPT !.payload = NULL, !.isExecuted = TRUE],
           [s EXCEPT !.characters = Append(@, c.payload)])

(* mutant: undo takes the character back without pop_back, which leaves   *)
(* the moved-from (null) slot in the collection                            *)
AddCharacterCommand_undo_noPop(c, s) ==
    IF c.isExecuted /\ s.characters # <<>>
    THEN Result([c EXCEPT !.payload = back(s.characters), !.isExecuted = FALSE],
                [s EXCEPT !.characters = Append(pop_back(@), NULL)])
    ELSE Result(c, s)

AddCharacterCommand_undo(c, s) ==
    IF c.isExecuted /\ s.characters # <<>>
    THEN Result([c EXCEPT !.payload = back(s.characters), !.isExecuted = FALSE],
                [s EXCEPT !.characters = pop_back(@)])
    ELSE Result(c, s)

AddBubbleCommand_execute(c, s) ==
    Result([c EXCEPT !.payload = NULL, !.isExecuted = TRUE],
           [s EXCEPT !.bubbles = Append(@, c.payload)])

AddBubbleCommand_undo(c, s) ==
    IF c.isExecuted /\ s.bubbles # <<>>
    THEN Result([c EXCEPT !.payload = back(s.bubbles), !.isExecuted = FALSE],
                [DestroyBubbles(s, {c.payload}) EXCEPT !.bubbles = pop_back(@)])
    ELSE Result(c, s)

AddStrokeCommand_execute(c, s) ==
    Result([c EXCEPT !.payload = NULL, !.isExecuted = TRUE],
           [s EXCEPT !.strokes = Append(@, c.payload)])

(* mutant: undo does not look at isExecuted *)
AddStrokeCommand_undo_noFlag(c, s) ==
    IF s.strokes # <<>>
    THEN Result([c EXCEPT !.payload = back(s.strokes), !.isExecuted = FALSE],
                [s EXCEPT !.strokes = pop_back(@)])
    ELSE Result(c, s)

AddStrokeCommand_undo(c, s) ==
    IF c.isExecuted /\ s.strokes # <<>>
    THEN Result([c EXCEPT !.payload = back(s.strokes), !.isExecuted = FALSE],
                [s EXCEPT !.strokes = pop_back(@)])
    ELSE Result(c, s)

(* mutant: execute takes its character, then empties the collection *)
DeleteCharacterCommand_execute_eraseAll(c, s) ==
    IF c.index >= 0 /\ c.index < Len(s.characters)
    THEN Result([c EXCEPT !.payload = s.characters[c.index + 1], !.isExecuted = TRUE],
                [s EXCEPT !.characters = <<>>])
    ELSE Result(c, s)

DeleteCharacterCommand_execute(c, s) ==
    IF c.index >= 0 /\ c.index < Len(s.characters)
    THEN Result([c EXCEPT !.payload = s.characters[c.index + 1], !.isExecuted = TRUE],
                [s EXCEPT !.characters = erase(@, c.index)])
    ELSE Result(c, s)

(* mutant: undo puts the character back at the end, not at its index *)
DeleteCharacterCommand_undo_pushBack(c, s) ==
    IF c.isExecuted /\ c.payload # NULL
    THEN Result([c EXCEPT !.payload = NULL, !.isExecuted = FALSE],
                [s EXCEPT !.characters = Append(@, c.payload)])
    ELSE Result(c, s)

(* vector::insert at begin() + index past end() is undefined behaviour *)
DeleteCharacterCommand_undo(c, s) ==
    IF c.isExecuted /\ c.payload # NULL
    THEN IF c.index > Len(s.characters)
         THEN Result([c EXCEPT !.isExecuted = FALSE], [s EXCEPT !.ub = TRUE])
         ELSE Result([c EXCEPT !.payload = NULL, !.isExecuted = FALSE],
                     [s EXCEPT !.characters = insert(@, c.index, c.payload)])
    ELSE Result(c, s)

(* mutant: undo checks neither isExecuted nor the held bubble *)
DeleteBubbleCommand_undo_noGuard(c, s) ==
    IF c.index < 0 \/ c.index > Len(s.bubbles)
    THEN Result([c EXCEPT !.isExecuted = FALSE], [s EXCEPT !.ub = TRUE])
    ELSE Result([c EXCEPT !.payload = NULL, !.isExecuted = FALSE],
                [s EXCEPT !.bubbles = insert(@, c.index, c.payload)])

(* mutant: execute removes the first bubble, whatever the index *)
DeleteBubbleCommand_execute_eraseFront(c, s) ==
    IF c.index >= 0 /\ c.index < Len(s.bubbles)
    THEN Result([c EXCEPT !.payload = s.bubbles[1], !.isExecuted = TRUE],
                [DestroyBubbles(s, {c.payload}) EXCEPT !.bubbles = erase(@, 0)])
    ELSE Result(c, s)

(* mutant: an index past the end deletes the last bubble *)
DeleteBubbleCommand_execute_clampsIndex(c, s) ==
    LET i == IF c.index >= Len(s.bubbles) THEN Len(s.bubbles) - 1 ELSE c.index
    IN  IF i >= 0
        THEN Result([c EXCEPT !.payload = s.bubbles[i + 1], !.isExecuted = TRUE],
                    [DestroyBubbles(s, {c.payload}) EXCEPT !.bubbles = erase(@, i)])
        ELSE Result(c, s)

(* mutant: execute erases the bubble without moving it out first, which   *)
(* destroys it                                                              *)
DeleteBubbleCommand_execute_destroys(c, s) ==
    IF c.index >= 0 /\ c.index < Len(s.bubbles)
    THEN Result([c EXCEPT !.isExecuted = TRUE],
                [DestroyBubbles(s, {s.bubbles[c.index + 1]})
                    EXCEPT !.bubbles = erase(@, c.index)])
    ELSE Result(c, s)

DeleteBubbleCommand_execute(c, s) ==
    IF c.index >= 0 /\ c.index < Len(s.bubbles)
    THEN Result([c EXCEPT !.payload = s.bubbles[c.index + 1], !.isExecuted = TRUE],
                [DestroyBubbles(s, {c.payload}) EXCEPT !.bubbles = erase(@, c.index)])
    ELSE Result(c, s)

DeleteBubbleCommand_undo(c, s) ==
    IF c.isExecuted /\ c.payload # NULL
    THEN IF c.index > Len(s.bubbles)
         THEN Result([c EXCEPT !.isExecuted = FALSE], [s EXCEPT !.ub = TRUE])
         ELSE Result([c EXCEPT !.payload = NULL, !.isExecuted = FALSE],
                     [s EXCEPT !.bubbles = insert(@, c.index, c.payload)])
    ELSE Result(c, s)

ChangeBubbleFontSizeCommand_execute(c, s) ==
    IF c.target # NULL
    THEN Result([c EXCEPT !.isExecuted = TRUE],
                SpeechBubble_setFontSize(s, c.target, c.newFontSize))
    ELSE Result(c, s)

(* mutant: undo applies newFontSize again *)
ChangeBubbleFontSizeCommand_undo_reapplyNew(c, s) ==
    IF c.isExecuted /\ c.target # NULL
    THEN Result([c EXCEPT !.isExecuted = FALSE],
                SpeechBubble_setFontSize(s, c.target, c.newFontSize))
    ELSE Result(c, s)

ChangeBubbleFontSizeCommand_undo(c, s) ==
    IF c.isExecuted /\ c.target # NULL
    THEN Result([c EXCEPT !.isExecuted = FALSE],
                SpeechBubble_setFontSize(s, c.target, c.previousFontSize))
    ELSE Result(c, s)

(* virtual dispatch on the command's class *)
Command_execute(c, s) ==
    CASE c.kind = "AddCharacter" -> AddCharacterCommand_execute(c, s)
      [] c.kind = "AddBubble" -> AddBubbleCommand_execute(c, s)
      [] c.kind = "AddStroke" -> AddStrokeCommand_execute(c, s)
      [] c.kind = "DeleteCharacter" -> DeleteCharacterCommand_execute(c, s)
      [] c.kind = "DeleteBubble" -> DeleteBubbleCommand_execute(c, s)
      [] c.kind = "ChangeBubbleFontSize" -> ChangeBubbleFontSizeCommand_execute(c, s)

Command_undo(c, s) ==
    CASE c.kind = "AddCharacter" -> AddCharacterCommand_undo(c, s)
      [] c.kind = "AddBubble" -> AddBubbleCommand_undo(c, s)
      [] c.kind = "AddStroke" -> AddStrokeCommand_undo(c, s)
      [] c.kind = "DeleteCharacter" -> DeleteCharacterCommand_undo(c, s)
      [] c.kind = "DeleteBubble" -> DeleteBubbleCommand_undo(c, s)
      [] c.kind = "ChangeBubbleFontSize" -> ChangeBubbleFontSizeCommand_undo(c, s)

-----------------------------------------------------------------------------
(* CommandManager: each function maps the state to the state after the call *)

CommandManager_canUndo(s) == s.undoStack # <<>>

CommandManager_canRedo(s) == s.redoStack # <<>>

(* mutant: on overflow the newest entry is dropped, not the oldest *)
CommandManager_executeCommand_evictNewest(cmd, s) ==
    LET r  == Command_execute(cmd, s)
        s1 == [r.s EXCEPT !.undoStack = Append(@, r.cmd)]
        s2 == [DestroyCommands(s1, s1.redoStack) EXCEPT !.redoStack = <<>>]
    IN  IF Len(s2.undoStack) > maxHistorySize
        THEN [DestroyCommands(s2, <<back(s2.undoStack)>>)
                EXCEPT !.undoStack = pop_back(@)]
        ELSE s2

(* mutant: the redo log is not cleared *)
CommandManager_executeCommand_keepRedo(cmd, s) ==
    LET r  == Command_execute(cmd, s)
        s1 == [r.s EXCEPT !.undoStack = Append(@, r.cmd)]
    IN  IF Len(s1.undoStack) > maxHistorySize
        THEN [DestroyCommands(s1, <<Head(s1.undoStack)>>)
                EXCEPT !.undoStack = Tail(@)]
        ELSE s1

(* mutant: the history is not limited *)
CommandManager_executeCommand_noLimit(cmd, s) ==
    LET r  == Command_execute(cmd, s)
        s1 == [r.s EXCEPT !.undoStack = Append(@, r.cmd)]
    IN  [DestroyCommands(s1, s1.redoStack) EXCEPT !.redoStack = <<>>]

CommandManager_executeCommand(cmd, s) ==
    LET r  == Command_execute(cmd, s)
        s1 == [r.s EXCEPT !.undoStack = Append(@, r.cmd)]
        s2 == [DestroyCommands(s1, s1.redoStack) EXCEPT !.redoStack = <<>>]
    IN  IF Len(s2.undoStack) > maxHistorySize
        THEN [DestroyCommands(s2, <<Head(s2.undoStack)>>)
                EXCEPT !.undoStack = Tail(@)]
        ELSE s2

(* mutant: no canUndo() guard; back() of an empty vector is undefined *)
CommandManager_undo_noGuard(s) ==
    IF s.undoStack = <<>>
    THEN [s EXCEPT !.ub = TRUE]
    ELSE LET cmd == back(s.undoStack)
             r   == Command_undo(cmd, [s EXCEPT !.undoStack = pop_back(@)])
         IN  [r.s EXCEPT !.redoStack = Append(@, r.cmd)]

(* mutant: undo takes the oldest command, not the most recent *)
CommandManager_undo_fifo(s) ==
    IF CommandManager_canUndo(s)
    THEN LET cmd == Head(s.undoStack)
             r   == Command_undo(cmd, [s EXCEPT !.undoStack = Tail(@)])
         IN  [r.s EXCEPT !.redoStack = Append(@, r.cmd)]
    ELSE s

(* mutant: the undone command also stays on the undo log *)
CommandManager_undo_noPop(s) ==
    IF CommandManager_canUndo(s)
    THEN LET cmd == back(s.undoStack)
             r   == Command_undo(cmd, s)
         IN  [r.s EXCEPT !.redoStack = Append(@, r.cmd)]
    ELSE s

CommandManager_undo(s) ==
    IF CommandManager_canUndo(s)
    THEN LET cmd == back(s.undoStack)
             r   == Command_undo(cmd, [s EXCEPT !.undoStack = pop_back(@)])
         IN  [r.s EXCEPT !.redoStack = Append(@, r.cmd)]
    ELSE s

(* mutant: redo moves the command back without executing it *)
CommandManager_redo_noExecute(s) ==
    IF CommandManager_canRedo(s)
    THEN [s EXCEPT !.undoStack = Append(@, back(s.redoStack)),
                   !.redoStack = pop_back(@)]
    ELSE s

CommandManager_redo(s) ==
    IF CommandManager_canRedo(s)
    THEN LET cmd == back(s.redoStack)
             r   == Command_execute(cmd, [s EXCEPT !.redoStack = pop_back(@)])
         IN  [r.s EXCEPT !.undoStack = Append(@, r.cmd)]
    ELSE s

(* mutant: clear() empties the undo log only *)
CommandManager_clear_undoOnly(s) ==
    [DestroyCommands(s, s.undoStack) EXCEPT !.undoStack = <<>>]

CommandManager_clear(s) ==
    [DestroyCommands(s, s.undoStack \o s.redoStack)
        EXCEPT !.undoStack = <<>>, !.redoStack = <<>>]

CommandManager_getUndoCount(s) == Len(s.undoStack)

CommandManager_getRedoCount(s) == Len(s.redoStack)

-----------------------------------------------------------------------------
(* One SpeechBubble object.  Lengths are whole pixels; a text is a sequence *)
(* of one-character strings.  The text anchor is kept in 1/100 pixel.       *)

(* AssetManager::getTexture(name): a texture or nullptr *)
AssetManager_getTexture(tex, name) == name \in tex

(* AssetManager::autoLoadBubbles: every image file of the directory, given  *)
(* by its stem, is registered under "bubble_" + stem                        *)
AssetManager_autoLoadBubbles(tex, stems) == tex \cup {"bubble_" \o n : n \in stems}

(* sf::Text::getLocalBounds().size.x of a one-line string: the font is      *)
(* taken to advance half the character size for every character            *)
Measure(str, characterSize) == Len(str) * (characterSize \div 2)

(* bounds.size.x > maxWidth, with maxWidth = width_ * 0.80f *)
ExceedsMaxWidth(str, b) == 10 * Measure(str, b.characterSize) > 8 * b.width_

NoSprite == [has |-> FALSE, texture |-> "", w |-> 0, h |-> 0, position |-> <<0, 0>>]

NoBubble ==
    [x_ |-> 0, y_ |-> 0, width_ |-> 0, height_ |-> 0,
     m_position |-> <<0, 0>>, m_size |-> <<0, 0>>,
     text_ |-> <<>>, fontSize_ |-> 0, characterSize |-> 0, style_ |-> "",
     useImageBubble_ |-> FALSE, bubbleImagePath_ |-> "",
     m_bubbleSprite |-> NoSprite,
     m_shape |-> [builder |-> "", w |-> 0, h |-> 0, position |-> <<0, 0>>,
                  points |-> <<>>],
     m_string |-> <<>>, textOrigin |-> <<>>, textPosition |-> <<0, 0>>]

NoCall == [op |-> "none"]

(* SpeechBubble::centerText: the origin becomes the centre of the bounds of *)
(* the string now set, the position the centre of the rectangle moved by    *)
(* the bias of an image bubble's style                                      *)
centerText(b) ==
    LET img(s) == b.style_ = s \/ b.bubbleImagePath_ = "bubble_" \o s
        biasX  == IF b.useImageBubble_ /\ ~img("speech") /\ img("speech_round")
                  THEN 5 ELSE 0
        biasY  == IF ~b.useImageBubble_ THEN 0
                  ELSE IF img("speech") THEN 15
                  ELSE IF img("speech_round") THEN 10
                  ELSE IF img("thought") THEN 8
                  ELSE IF img("speech_rectangle") THEN 12
                  ELSE 0
    IN  [b EXCEPT !.textOrigin = b.m_string,
                  !.textPosition =
                      <<100 * b.m_position[1] + 50 * b.width_ - biasX * b.width_,
                        100 * b.m_position[2] + 50 * b.height_ - biasY * b.height_>>]

(* mutant: a word that became too long is broken after the character that  *)
(* made it too long                                                         *)
wrapChar_breakAfter(st, c, b) ==
    IF c = " " \/ c = "\n"
    THEN LET testLine == IF st.currentLine = <<>> THEN st.currentWord
                         ELSE st.currentLine \o <<" ">> \o st.currentWord
             wraps    == ExceedsMaxWidth(testLine, b) /\ st.currentLine # <<>>
             wrapped1 == IF wraps THEN st.wrappedText \o st.currentLine \o <<"\n">>
                         ELSE st.wrappedText
             line1    == IF wraps THEN st.currentWord ELSE testLine
         IN  IF c = "\n"
             THEN [wrappedText |-> wrapped1 \o line1 \o <<"\n">>,
                   currentWord |-> <<>>, currentLine |-> <<>>]
             ELSE [wrappedText |-> wrapped1,
                   currentWord |-> <<>>, currentLine |-> line1]
    ELSE LET word1 == Append(st.currentWord, c)
         IN  IF ExceedsMaxWidth(word1, b) /\ Len(word1) > 1
             THEN [wrappedText |-> st.wrappedText
                                     \o (IF st.currentLine # <<>>
                                         THEN st.currentLine \o <<" ">> ELSE <<>>)
                                     \o word1 \o <<"\n">>,
                   currentWord |-> <<>>, currentLine |-> <<>>]
             ELSE [st EXCEPT !.currentWord = word1]

(* one turn of the loop of wrapText over the character c *)
wrapChar(st, c, b) ==
    IF c = " " \/ c = "\n"
    THEN LET testLine == IF st.currentLine = <<>> THEN st.currentWord
                         ELSE st.currentLine \o <<" ">> \o st.currentWord
             wraps    == ExceedsMaxWidth(testLine, b) /\ st.currentLine # <<>>
             wrapped1 == IF wraps THEN st.wrappedText \o st.currentLine \o <<"\n">>
                         ELSE st.wrappedText
             line1    == IF wraps THEN st.currentWord ELSE testLine
         IN  IF c = "\n"
             THEN [wrappedText |-> wrapped1 \o line1 \o <<"\n">>,
                   currentWord |-> <<>>, currentLine |-> <<>>]
             ELSE [wrappedText |-> wrapped1,
                   currentWord |-> <<>>, currentLine |-> line1]
    ELSE LET word1 == Append(st.currentWord, c)
         IN  IF ExceedsMaxWidth(word1, b) /\ Len(word1) > 1
             THEN [wrappedText |-> st.wrappedText
                                     \o (IF st.currentLine # <<>>
                                         THEN st.currentLine \o <<" ">> ELSE <<>>)
                                     \o pop_back(word1) \o <<"\n">>,
                   currentWord |-> <<c>>, currentLine |-> <<>>]
             ELSE [st EXCEPT !.currentWord = word1]

RECURSIVE wrapLoop(_, _, _)
wrapLoop(st, text, b) ==
    IF text = <<>> THEN st ELSE wrapLoop(wrapChar(st, Head(text), b), Tail(text), b)

(* mutant: when the last word goes on a line of its own, it is left out *)
wrapText_dropsLastWord(b) ==
    IF b.text_ = <<>>
    THEN centerText([b EXCEPT !.m_string = <<>>])
    ELSE LET st == wrapLoop([wrappedText |-> <<>>, currentWord |-> <<>>,
                             currentLine |-> <<>>], b.text_, b)
             testLine == IF st.currentLine = <<>> THEN st.currentWord
                         ELSE st.currentLine \o <<" ">> \o st.currentWord
             wrappedText ==
                 IF st.currentWord # <<>>
                 THEN IF ExceedsMaxWidth(testLine, b) /\ st.currentLine # <<>>
                      THEN st.wrappedText \o st.currentLine \o <<"\n">>
                      ELSE st.wrappedText \o testLine
                 ELSE IF st.currentLine # <<>>
                      THEN st.wrappedText \o st.currentLine
                      ELSE st.wrappedText
         IN  centerText([b EXCEPT !.m_string = wrappedText])

(* SpeechBubble::wrapText *)
wrapText(b) ==
    IF b.text_ = <<>>
    THEN centerText([b EXCEPT !.m_string = <<>>])
    ELSE LET st == wrapLoop([wrappedText |-> <<>>, currentWord |-> <<>>,
                             currentLine |-> <<>>], b.text_, b)
             testLine == IF st.currentLine = <<>> THEN st.currentWord
                         ELSE st.currentLine \o <<" ">> \o st.currentWord
             wrappedText ==
                 IF st.currentWord # <<>>
                 THEN IF ExceedsMaxWidth(testLine, b) /\ st.currentLine # <<>>
                      THEN st.wrappedText \o st.currentLine \o <<"\n">> \o st.currentWord
                      ELSE st.wrappedText \o testLine
                 ELSE IF st.currentLine # <<>>
                      THEN st.wrappedText \o st.currentLine
                      ELSE st.wrappedText
         IN  centerText([b EXCEPT !.m_string = wrappedText])

(* The polygon builders.  Widths and heights are whole pixels, the points   *)
(* of a polygon are <<x, y>> in 1/1000 pixel, an angle is a number of 1/160 *)
(* of a turn, and a sine is in 1/1000; a product of two values in 1/1000 is *)
(* brought back to 1/1000.                                                  *)

(* PI, as an angle *)
PI == 80

(* std::sin of the angles of the first quarter turn that the builders use *)
SinTable ==
    (0 :> 0) @@ (5 :> 195) @@ (8 :> 309) @@ (10 :> 383) @@ (15 :> 556)
    @@ (16 :> 588) @@ (20 :> 707) @@ (24 :> 809) @@ (25 :> 831)
    @@ (30 :> 924) @@ (32 :> 951) @@ (35 :> 981) @@ (40 :> 1000)

(* std::sin(ang) *)
Sin(ang) ==
    LET a == ang % (2 * PI)
    IN  IF a <= 40 THEN SinTable[a]
        ELSE IF a <= 80 THEN SinTable[80 - a]
        ELSE IF a <= 120 THEN -SinTable[a - 80]
        ELSE -SinTable[160 - a]

(* std::cos(ang) *)
Cos(ang) == Sin(ang + 40)

(* the product of two values in 1/1000 *)
Mul(a, b) == (a * b) \div 1000

(* m_shape.setPoint(idx, p) for every <<idx, p>> of writes, in order, on    *)
(* the points left by m_shape.setPointCount(count)                          *)
setPoints(points, count, writes) ==
    LET resized == [i \in 1..count |->
                       IF i <= Len(points) THEN points[i] ELSE <<0, 0>>]
        lastWrite(i) == CHOOSE k \in 1..Len(writes) :
                            /\ writes[k][1] = i
                            /\ \A j \in (k + 1)..Len(writes) : writes[j][1] # i
    IN  [i \in 1..count |->
            IF \E k \in 1..Len(writes) : writes[k][1] = i - 1
            THEN writes[lastWrite(i - 1)][2]
            ELSE resized[i]]

(* the lambda putArc of rebuildSpeechRound: the setPoint calls it makes;    *)
(* t * (PI / 2) is i / 5 of a quarter turn                                  *)
putArc(startIdx, c, startAng, radius) ==
    [n \in 1..6 |->
        LET i   == n - 1
            ang == startAng + i * 8
        IN  <<startIdx + i,
              <<c[1] + radius * Cos(ang), c[2] + radius * Sin(ang)>>>>]

(* mutant: the fourth arc starts on the last tail point *)
rebuildSpeechRound_writes_overlap(w, h, radius, tailLen, tailWidth) ==
    LET tl == <<1000 * radius, 1000 * radius>>
        tr == <<1000 * (w - radius), 1000 * radius>>
        br == <<1000 * (w - radius), 1000 * (h - radius)>>
        bl == <<1000 * radius, 1000 * (h - radius)>>
        baseX == 1000 * (radius + 18)
        baseY == 1000 * h
        halfW == 500 * tailWidth
    IN  putArc(0, tl, PI, radius)
        \o putArc(6, tr, -(PI \div 2), radius)
        \o putArc(12, br, 0, radius)
        \o << <<18, <<baseX + halfW, baseY - 2000>>>>,
              <<19, <<baseX - 200 * tailWidth, baseY + 1000 * tailLen>>>>,
              <<20, <<baseX - halfW, baseY - 2000>>>> >>
        \o putArc(20, bl, PI \div 2, radius)

(* SpeechBubble::rebuildSpeechRound: the setPoint calls it makes, in order *)
rebuildSpeechRound_writes(w, h, radius, tailLen, tailWidth) ==
    LET arcSegments == 6
        tl == <<1000 * radius, 1000 * radius>>
        tr == <<1000 * (w - radius), 1000 * radius>>
        br == <<1000 * (w - radius), 1000 * (h - radius)>>
        bl == <<1000 * radius, 1000 * (h - radius)>>
        idx == 3 * arcSegments
        baseX == 1000 * (radius + 18)
        baseY == 1000 * h
        halfW == 500 * tailWidth
    IN  putArc(0, tl, PI, radius)
        \o putArc(arcSegments, tr, -(PI \div 2), radius)
        \o putArc(2 * arcSegments, br, 0, radius)
        \o << <<idx,     <<baseX + halfW, baseY - 2000>>>>,
              <<idx + 1, <<baseX - 200 * tailWidth, baseY + 1000 * tailLen>>>>,
              <<idx + 2, <<baseX - halfW, baseY - 2000>>>> >>
        \o putArc(idx + 3, bl, PI \div 2, radius)

(* SpeechBubble::rebuildSpeechRound *)
rebuildSpeechRound(points, w, h, radius, tailLen, tailWidth) ==
    setPoints(points, 4 * 6 + 3,
              rebuildSpeechRound_writes(w, h, radius, tailLen, tailWidth))

(* SpeechBubble::rebuildSpeechBox *)
rebuildSpeechBox(points, w, h, radius, tailLen, tailWidth) ==
    LET baseX == 1000 * (w - radius - 18)
        baseY == 1000 * h
        halfW == 500 * tailWidth
    IN  setPoints(points, 4 + 3,
            << <<0, <<1000 * radius, 1000 * radius>>>>,
               <<1, <<1000 * (w - radius), 1000 * radius>>>>,
               <<2, <<1000 * (w - radius), 1000 * (h - radius)>>>>,
               <<3, <<baseX + halfW, baseY - 2000>>>>,
               <<4, <<baseX + 200 * tailWidth, baseY + 1000 * tailLen>>>>,
               <<5, <<baseX - halfW, baseY - 2000>>>>,
               <<6, <<1000 * radius, 1000 * (h - radius)>>>> >>)

(* SpeechBubble::rebuildThought *)
rebuildThought(points, w, h) ==
    LET blobs == 10
        seg   == 8
        r     == 160 * (IF w < h THEN w ELSE h)
        a     == 500 * w - Mul(r, 900)
        b     == 500 * h - Mul(r, 800)
        c     == <<500 * w, 500 * h>>
        write(n) ==
            LET i      == (n - 1) \div seg
                j      == (n - 1) % seg
                t      == i * ((2 * PI) \div blobs)
                jitter == 1000 + Mul(150, Sin(t * 2))
                center == <<c[1] + Mul(a, Cos(t)), c[2] + Mul(b, Sin(t))>>
                ang    == j * ((2 * PI) \div seg)
            IN  <<n - 1, <<center[1] + Mul(Mul(r, jitter), Cos(ang)),
                           center[2] + Mul(Mul(r, jitter), Sin(ang))>>>>
    IN  setPoints(points, blobs * seg, [n \in 1..(blobs * seg) |-> write(n)])

(* SpeechBubble::rebuildShout *)
rebuildShout(points, w, h) ==
    LET spikes == 16
        rx   == 480 * w
        ry   == 420 * h
        rOut == IF rx < ry THEN rx ELSE ry
        rIn  == Mul(rOut, 650)
        c    == <<500 * w, 500 * h>>
        write(n) ==
            LET i   == n - 1
                t   == i * ((2 * PI) \div (spikes * 2))
                rad == IF i % 2 = 0 THEN rOut ELSE rIn
            IN  <<i, <<c[1] + Mul(rad, Cos(t)), c[2] + Mul(rad, Sin(t))>>>>
    IN  setPoints(points, spikes * 2, [n \in 1..(spikes * 2) |-> write(n)])

(* mutant: the rectangle style is built by the round builder *)
rebuild_boxAsRound(b, w, h) ==
    LET builder == IF b.style_ = "thought" THEN "rebuildThought"
                   ELSE IF b.style_ = "shout" THEN "rebuildShout"
                   ELSE "rebuildSpeechRound"
        old     == b.m_shape.points
        points  == IF builder = "rebuildThought" THEN rebuildThought(old, w, h)
                   ELSE IF builder = "rebuildShout" THEN rebuildShout(old, w, h)
                   ELSE rebuildSpeechRound(old, w, h, 12, 20, 10)
    IN  [b EXCEPT !.m_shape = [@ EXCEPT !.builder = builder, !.w = w, !.h = h,
                                        !.points = points]]

(* SpeechBubble::rebuild(w, h), with the default radius, tailLen and        *)
(* tailWidth of its declaration: the builder of the current style makes the *)
(* polygon for w and h                                                      *)
rebuild(b, w, h) ==
    LET builder == IF b.style_ = "thought" THEN "rebuildThought"
                   ELSE IF b.style_ = "shout" THEN "rebuildShout"
                   ELSE IF b.style_ = "speech_rectangle" THEN "rebuildSpeechBox"
                   ELSE "rebuildSpeechRound"
        old     == b.m_shape.points
        points  == IF builder = "rebuildThought" THEN rebuildThought(old, w, h)
                   ELSE IF builder = "rebuildShout" THEN rebuildShout(old, w, h)
                   ELSE IF builder = "rebuildSpeechBox"
                        THEN rebuildSpeechBox(old, w, h, 12, 20, 10)
                   ELSE rebuildSpeechRound(old, w, h, 12, 20, 10)
    IN  [b EXCEPT !.m_shape = [@ EXCEPT !.builder = builder, !.w = w, !.h = h,
                                        !.points = points]]

CanvasObject_setPosition(b, x, y) ==
    [b EXCEPT !.x_ = x, !.y_ = y, !.m_position = <<x, y>>]

(* CanvasObject::setPosition(const sf::Vector2f&) *)
CanvasObject_setPositionVector2f(b, pos) ==
    [b EXCEPT !.m_position = pos, !.x_ = pos[1], !.y_ = pos[2]]

(* mutant: the move changes the logical position only *)
CanvasObject_move_logicalOnly(b, dx, dy) ==
    [b EXCEPT !.x_ = b.x_ + dx, !.y_ = b.y_ + dy]

(* CanvasObject::move(float dx, float dy) *)
CanvasObject_move(b, dx, dy) ==
    LET b1 == [b EXCEPT !.x_ = b.x_ + dx, !.y_ = b.y_ + dy]
    IN  [b1 EXCEPT !.m_position = <<b1.x_, b1.y_>>]

(* CanvasObject::move(const sf::Vector2f&) *)
CanvasObject_moveVector2f(b, offset) ==
    LET b1 == [b EXCEPT !.m_position = <<b.m_position[1] + offset[1],
                                         b.m_position[2] + offset[2]>>]
    IN  [b1 EXCEPT !.x_ = b1.m_position[1], !.y_ = b1.m_position[2]]

(* CanvasObject::setSize(float w, float h) *)
CanvasObject_setSize(b, w, h) ==
    [b EXCEPT !.width_ = w, !.height_ = h, !.m_size = <<w, h>>]

(* CanvasObject::setSize(const sf::Vector2f&): virtual, and not overridden  *)
(* by SpeechBubble                                                          *)
CanvasObject_setSizeVector2f(b, size) ==
    [b EXCEPT !.m_size = size, !.width_ = size[1], !.height_ = size[2]]

(* SpeechBubble::setPosition(x, y) *)
setPosition(b, x, y) ==
    LET b1 == CanvasObject_setPosition(b, x, y)
        b2 == [b1 EXCEPT !.m_shape.position = b1.m_position]
        b3 == IF b2.m_bubbleSprite.has
              THEN [b2 EXCEPT !.m_bubbleSprite.position = b2.m_position]
              ELSE b2
    IN  centerText(b3)

(* SpeechBubble::loadBubbleImage(imagePath); making the sprite does not throw *)
loadBubbleImage(b, imagePath, tex) ==
    LET b1 == [b EXCEPT !.bubbleImagePath_ = imagePath]
    IN  IF ~AssetManager_getTexture(tex, imagePath)
        THEN rebuild([b1 EXCEPT !.useImageBubble_ = FALSE], b1.width_, b1.height_)
        ELSE [b1 EXCEPT !.useImageBubble_ = TRUE,
                        !.m_bubbleSprite =
                            [has |-> TRUE, texture |-> imagePath,
                             w |-> b1.width_, h |-> b1.height_,
                             position |-> b1.m_position]]

(* mutant: a style without a texture keeps the image flag as it was *)
setStyle_keepImage(b, style, tex) ==
    LET b1 == [b EXCEPT !.style_ = style]
        imagePath == "bubble_" \o style
    IN  IF AssetManager_getTexture(tex, imagePath)
        THEN loadBubbleImage(b1, imagePath, tex)
        ELSE rebuild(b1, b1.width_, b1.height_)

(* SpeechBubble::setStyle(style) *)
setStyle(b, style, tex) ==
    LET b1 == [b EXCEPT !.style_ = style]
        imagePath == "bubble_" \o style
    IN  IF AssetManager_getTexture(tex, imagePath)
        THEN loadBubbleImage(b1, imagePath, tex)
        ELSE rebuild([b1 EXCEPT !.useImageBubble_ = FALSE], b1.width_, b1.height_)

(* SpeechBubble::setSize(float w, float h) *)
setSize(b, w, h, tex) ==
    LET b1 == CanvasObject_setSize(b, w, h)
        b2 == IF b1.useImageBubble_ /\ b1.m_bubbleSprite.has
              THEN IF AssetManager_getTexture(tex, b1.bubbleImagePath_)
                   THEN [b1 EXCEPT !.m_bubbleSprite.w = w, !.m_bubbleSprite.h = h]
                   ELSE b1
              ELSE rebuild(b1, w, h)
    IN  wrapText(b2)

(* SpeechBubble::setText(text) *)
setText(b, text) == wrapText([b EXCEPT !.text_ = text])

(* SpeechBubble::getText *)
getText(b) == b.text_

(* static_cast<unsigned int>(size): a size that is not negative keeps its   *)
(* value; the sizes of the model are not negative                           *)
ToUnsigned(size) == IF size >= 0 THEN size ELSE -(size + 1)

(* mutant: the new character size is set and the text is not wrapped again *)
setFontSize_noWrap(b, size) ==
    [b EXCEPT !.fontSize_ = size, !.characterSize = ToUnsigned(size)]

(* SpeechBubble::setFontSize(size) *)
setFontSize(b, size) ==
    wrapText([b EXCEPT !.fontSize_ = size, !.characterSize = ToUnsigned(size)])

(* what a function that throws gives its caller instead of a value *)
runtime_error == "std::runtime_error"

(* mutant: a font that is not loaded is taken for loaded *)
AssetManager_getFont_found(fnts, name) == name

(* AssetManager::getFont(name): the font, or the exception "Font not found" *)
AssetManager_getFont(fnts, name) ==
    IF name \notin fnts THEN runtime_error ELSE name

(* SpeechBubble::SpeechBubble(id, text, x, y, width, height), the font      *)
(* "actionman" being loaded; members start at their default initializers    *)
SpeechBubble_SpeechBubble(text, x, y, width, height) ==
    LET b0 == [NoBubble EXCEPT !.x_ = x, !.y_ = y, !.width_ = width,
                               !.height_ = height, !.m_position = <<x, y>>,
                               !.m_size = <<width, height>>,
                               !.style_ = "speech", !.useImageBubble_ = FALSE,
                               !.text_ = text, !.m_string = text,
                               !.characterSize = 24, !.fontSize_ = DefaultFontSize]
        b1 == rebuild(b0, b0.width_, b0.height_)
        b2 == setPosition(b1, x, y)
    IN  wrapText(b2)

(* std::make_unique<SpeechBubble>(id, text, x, y, width, height): the       *)
(* member initializer m_text(getFont("actionman")) runs before the body; an *)
(* exception of it ends the construction and no object is made; thrown      *)
(* tells whether the call threw, object is what it returned otherwise       *)
make_unique_SpeechBubble(fnts, text, x, y, width, height) ==
    IF AssetManager_getFont(fnts, "actionman") = runtime_error
    THEN [thrown |-> TRUE, object |-> NoBubble]
    ELSE [thrown |-> FALSE,
          object |-> SpeechBubble_SpeechBubble(text, x, y, width, height)]

-----------------------------------------------------------------------------
(* One BrushStroke object.  A float is modelled by the exact rational       *)
(* <<numerator, denominator>> in lowest terms; sf::Vector2f is <<x, y>>.    *)
(* Comparisons of distances compare their squares.                          *)

Abs(n) == IF n < 0 THEN -n ELSE n

RECURSIVE GCD(_, _)
GCD(a, b) == IF b = 0 THEN a ELSE GCD(b, a % b)

Rat(n, d) ==
    LET g == GCD(Abs(n), Abs(d))
        s == IF d < 0 THEN -1 ELSE 1
    IN  <<(s * n) \div g, (s * d) \div g>>

RAdd(p, q) == Rat(p[1] * q[2] + q[1] * p[2], p[2] * q[2])
RSub(p, q) == Rat(p[1] * q[2] - q[1] * p[2], p[2] * q[2])
RMul(p, q) == Rat(p[1] * q[1], p[2] * q[2])
RDiv(p, q) == Rat(p[1] * q[2], p[2] * q[1])
RLe(p, q) == p[1] * q[2] <= q[1] * p[2]
RMin(p, q) == IF RLe(q, p) THEN q ELSE p
RMax(p, q) == IF RLe(p, q) THEN q ELSE p

(* std::ceil of a rational *)
RCeil(p) == -((-p[1]) \div p[2])

(* static_cast<int>(std::ceil(dist / spacing)) with dist = sqrt(dist2): the *)
(* least n with n * spacing >= dist                                         *)
CeilOfRatio(dist2, spacing) ==
    LET r == RDiv(dist2, RMul(spacing, spacing))
    IN  CHOOSE n \in 0..RCeil(r) :
            /\ RLe(r, <<n * n, 1>>)
            /\ \A m \in 0..(n - 1) : ~RLe(r, <<m * m, 1>>)

NoStroke ==
    [thickness_ |-> <<0, 1>>, m_vertices |-> <<>>,
     x_ |-> <<0, 1>>, y_ |-> <<0, 1>>, width_ |-> <<0, 1>>, height_ |-> <<0, 1>>,
     m_position |-> <<<<0, 1>>, <<0, 1>>>>, m_size |-> <<<<0, 1>>, <<0, 1>>>>]

(* BrushStroke::BrushStroke(id, color, thickness) *)
BrushStroke_BrushStroke(thickness) == [NoStroke EXCEPT !.thickness_ = thickness]

(* BrushStroke::beginAt(pos) *)
beginAt(k, pos) ==
    [k EXCEPT !.m_vertices = <<pos>>,
              !.x_ = pos[1], !.y_ = pos[2],
              !.width_ = <<0, 1>>, !.height_ = <<0, 1>>,
              !.m_position = pos, !.m_size = <<<<0, 1>>, <<0, 1>>>>]

(* BrushStroke::updateBoundsForPoint(p) *)
updateBoundsForPoint(k, p) ==
    LET minX == RMin(k.x_, p[1])
        minY == RMin(k.y_, p[2])
        maxX == RMax(RAdd(k.x_, k.width_), p[1])
        maxY == RMax(RAdd(k.y_, k.height_), p[2])
    IN  [k EXCEPT !.x_ = minX, !.y_ = minY,
                  !.width_ = RSub(maxX, minX), !.height_ = RSub(maxY, minY),
                  !.m_position = <<minX, minY>>,
                  !.m_size = <<RSub(maxX, minX), RSub(maxY, minY)>>]

(* append(v) followed by updateBoundsForPoint(v.position) *)
appendPoint(k, p) == updateBoundsForPoint([k EXCEPT !.m_vertices = Append(@, p)], p)

(* the loop of addPoint from step i on *)
RECURSIVE interpolate(_, _, _, _, _, _)
interpolate(k, lastPos, dx, dy, steps, i) ==
    IF i > steps THEN k
    ELSE LET tt == Rat(i, steps)
             p  == <<RAdd(lastPos[1], RMul(tt, dx)), RAdd(lastPos[2], RMul(tt, dy))>>
         IN  interpolate(appendPoint(k, p), lastPos, dx, dy, steps, i + 1)

(* max(thickness_ * 0.5f, 0.5f) *)
spacingOf(k) == RMax(RMul(k.thickness_, <<1, 2>>), <<1, 2>>)

(* mutant: the number of steps is truncated, not rounded up *)
addPoint_truncSteps(k, pos) ==
    IF k.m_vertices = <<>>
    THEN appendPoint(k, pos)
    ELSE LET lastPos == back(k.m_vertices)
             dx      == RSub(pos[1], lastPos[1])
             dy      == RSub(pos[2], lastPos[2])
             dist2   == RAdd(RMul(dx, dx), RMul(dy, dy))
             spacing == spacingOf(k)
             up      == CeilOfRatio(dist2, spacing)
             steps   == IF RLe(<<up * up, 1>>, RDiv(dist2, RMul(spacing, spacing)))
                        THEN up ELSE up - 1
         IN  IF RLe(dist2, RMul(spacing, spacing))
             THEN appendPoint(k, pos)
             ELSE interpolate(k, lastPos, dx, dy, steps, 1)

(* mutant: a point near the last one takes its place *)
addPoint_coalesce(k, pos) ==
    IF k.m_vertices = <<>>
    THEN appendPoint(k, pos)
    ELSE LET lastPos == back(k.m_vertices)
             dx      == RSub(pos[1], lastPos[1])
             dy      == RSub(pos[2], lastPos[2])
             dist2   == RAdd(RMul(dx, dx), RMul(dy, dy))
             spacing == spacingOf(k)
         IN  IF RLe(dist2, RMul(spacing, spacing))
             THEN appendPoint([k EXCEPT !.m_vertices = pop_back(@)], pos)
             ELSE interpolate(k, lastPos, dx, dy, CeilOfRatio(dist2, spacing), 1)

(* BrushStroke::addPoint(pos) *)
addPoint(k, pos) ==
    IF k.m_vertices = <<>>
    THEN appendPoint(k, pos)
    ELSE LET lastPos == back(k.m_vertices)
             dx      == RSub(pos[1], lastPos[1])
             dy      == RSub(pos[2], lastPos[2])
             dist2   == RAdd(RMul(dx, dx), RMul(dy, dy))
             spacing == spacingOf(k)
         IN  IF RLe(dist2, RMul(spacing, spacing))
             THEN appendPoint(k, pos)
             ELSE interpolate(k, lastPos, dx, dy, CeilOfRatio(dist2, spacing), 1)

-----------------------------------------------------------------------------
(* One Character object.  Lengths and degrees are whole numbers.            *)

NoCharacter ==
    [id_ |-> "", x_ |-> 0, y_ |-> 0, width_ |-> 0, height_ |-> 0,
     rotationDegrees_ |-> 0, m_position |-> <<0, 0>>, m_size |-> <<0, 0>>,
     m_rotationDegrees_sfml |-> 0,
     imagePath_ |-> "", expression_ |-> "", flippedHorizontally_ |-> FALSE]

(* Character::Character(id, imagePath, x, y, width, height) *)
Character_Character(id, imagePath, x, y, width, height) ==
    [id_ |-> id, x_ |-> x, y_ |-> y, width_ |-> width, height_ |-> height,
     rotationDegrees_ |-> 0, m_position |-> <<x, y>>, m_size |-> <<width, height>>,
     m_rotationDegrees_sfml |-> 0,
     imagePath_ |-> imagePath, expression_ |-> "neutral",
     flippedHorizontally_ |-> FALSE]

(* CanvasObject::setRotation(degrees) *)
CanvasObject_setRotation(o, degrees) ==
    [o EXCEPT !.rotationDegrees_ = degrees, !.m_rotationDegrees_sfml = degrees]

(* Character::setExpression(expr) *)
setExpression(c, expr) == [c EXCEPT !.expression_ = expr]

(* Character::setImagePath(path) *)
setImagePath(c, path) == [c EXCEPT !.imagePath_ = path]

(* mutant: a flipped character is moved to its mirror position *)
setFlipped_mirror(c, flipped) ==
    [c EXCEPT !.flippedHorizontally_ = flipped,
              !.x_ = IF flipped THEN c.x_ + c.width_ ELSE c.x_,
              !.m_position = <<IF flipped THEN c.x_ + c.width_ ELSE c.x_, c.y_>>]

(* Character::setFlipped(flipped) *)
setFlipped(c, flipped) == [c EXCEPT !.flippedHorizontally_ = flipped]

(* Character::isFlipped() *)
isFlipped(c) == c.flippedHorizontally_

(* Character::isClicked(mouseX, mouseY) *)
Character_isClicked(c, mouseX, mouseY) ==
    LET inX == mouseX >= c.x_ /\ mouseX <= c.x_ + c.width_
        inY == mouseY >= c.y_ /\ mouseY <= c.y_ + c.height_
    IN  inX /\ inY

(* mutant: the right and the lower border are outside *)
SpeechBubble_isClicked_strict(b, mouseX, mouseY) ==
    LET inX == mouseX >= b.x_ /\ mouseX < b.x_ + b.width_
        inY == mouseY >= b.y_ /\ mouseY < b.y_ + b.height_
    IN  inX /\ inY

(* SpeechBubble::isClicked(mouseX, mouseY) *)
SpeechBubble_isClicked(b, mouseX, mouseY) ==
    LET inX == mouseX >= b.x_ /\ mouseX <= b.x_ + b.width_
        inY == mouseY >= b.y_ /\ mouseY <= b.y_ + b.height_
    IN  inX /\ inY

(* BrushStroke::isClicked(mouseX, mouseY) *)
BrushStroke_isClicked(k, mouseX, mouseY) ==
    LET inX == RLe(k.x_, mouseX) /\ RLe(mouseX, RAdd(k.x_, k.width_))
        inY == RLe(k.y_, mouseY) /\ RLe(mouseY, RAdd(k.y_, k.height_))
    IN  inX /\ inY

-----------------------------------------------------------------------------
(* The editor's mouse handlers on the canvas (main.cpp), for a scene of one *)
(* bubble, bubbles[0], and one character, characters[0].  A world is the    *)
(* record <<editor, bubble, character>> the handlers work on; the editor is *)
(* the locals of main that selection, drag and resize use.  Draw mode is    *)
(* off and no slider or colour wheel is being dragged.                      *)

NoEditor ==
    [picked |-> "None", pickedIndex |-> -1, activeBubble |-> "nullptr",
     resizing |-> FALSE, resizeKind |-> "None", resizeIndex |-> -1,
     resizeStartMouse |-> <<0, 0>>, resizeStartSize |-> <<0, 0>>,
     resizeStartPos |-> <<0, 0>>,
     draggingSprite |-> FALSE, dragSpriteIdx |-> -1,
     draggingBubble |-> FALSE, dragBubbleIdx |-> -1, dragOffset |-> <<0, 0>>]

(* sf::FloatRect::contains(point): the least edges inside, the greatest out *)
FloatRect_contains(r, point) ==
    LET x1 == r.position[1]
        x2 == r.position[1] + r.size[1]
        y1 == r.position[2]
        y2 == r.position[2] + r.size[2]
    IN  /\ point[1] >= (IF x1 < x2 THEN x1 ELSE x2)
        /\ point[1] < (IF x1 < x2 THEN x2 ELSE x1)
        /\ point[2] >= (IF y1 < y2 THEN y1 ELSE y2)
        /\ point[2] < (IF y1 < y2 THEN y2 ELSE y1)

(* the lambdas bubbleRect and characterRect: getPosition() and getSize() *)
objectRect(o) == [position |-> o.m_position, size |-> o.m_size]

(* the lambda handleRect: the resize handle at the lower right corner *)
handleRect(r) ==
    [position |-> <<r.position[1] + r.size[1] - 10, r.position[2] + r.size[2] - 10>>,
     size |-> <<10, 10>>]

(* the lambda flipHandleRect: the flip handle at the upper right corner *)
flipHandleRect(r) ==
    [position |-> <<r.position[1] + r.size[1] - 10, r.position[2]>>,
     size |-> <<10, 10>>]

(* MouseButtonPressed, left button, on the canvas: flip handles, resize     *)
(* handles, then the bodies.  The flip of a bubble changes no member of the *)
(* bubble that is modelled.                                                 *)
MouseButtonPressed(w, mpos) ==
    LET ed0 == [w.editor EXCEPT !.picked = "None", !.pickedIndex = -1,
                                !.activeBubble = "nullptr"]
        b   == w.bubble
        c   == w.character
    IN  IF FloatRect_contains(flipHandleRect(objectRect(b)), mpos)
        THEN [w EXCEPT !.editor = [ed0 EXCEPT !.picked = "Bubble", !.pickedIndex = 0,
                                               !.activeBubble = "bubbles[0]"]]
        ELSE IF FloatRect_contains(flipHandleRect(objectRect(c)), mpos)
        THEN [w EXCEPT !.character = setFlipped(c, ~isFlipped(c)),
                       !.editor = [ed0 EXCEPT !.picked = "Sprite", !.pickedIndex = 0]]
        ELSE IF FloatRect_contains(handleRect(objectRect(b)), mpos)
        THEN [w EXCEPT !.editor =
                 [ed0 EXCEPT !.resizing = TRUE, !.resizeKind = "Bubble",
                             !.resizeIndex = 0, !.resizeStartMouse = mpos,
                             !.resizeStartSize = b.m_size,
                             !.resizeStartPos = b.m_position,
                             !.activeBubble = "bubbles[0]",
                             !.picked = "Bubble", !.pickedIndex = 0]]
        ELSE IF FloatRect_contains(handleRect(objectRect(c)), mpos)
        THEN [w EXCEPT !.editor =
                 [ed0 EXCEPT !.resizing = TRUE, !.resizeKind = "Sprite",
                             !.resizeIndex = 0, !.resizeStartMouse = mpos,
                             !.resizeStartSize = c.m_size,
                             !.resizeStartPos = c.m_position,
                             !.picked = "Sprite", !.pickedIndex = 0]]
        ELSE LET ed1 == IF FloatRect_contains(objectRect(c), mpos)
                        THEN [ed0 EXCEPT !.draggingSprite = TRUE, !.dragSpriteIdx = 0,
                                         !.dragOffset = <<mpos[1] - c.m_position[1],
                                                          mpos[2] - c.m_position[2]>>,
                                         !.picked = "Sprite", !.pickedIndex = 0]
                        ELSE ed0
                 pos  == b.m_position
                 size == b.m_size
             IN  IF /\ ~ed1.draggingSprite
                    /\ mpos[1] >= pos[1] /\ mpos[1] <= pos[1] + size[1]
                    /\ mpos[2] >= pos[2] /\ mpos[2] <= pos[2] + size[2]
                 THEN [w EXCEPT !.editor =
                          [ed1 EXCEPT !.draggingBubble = TRUE, !.dragBubbleIdx = 0,
                                      !.dragOffset = <<mpos[1] - pos[1], mpos[2] - pos[2]>>,
                                      !.activeBubble = "bubbles[0]",
                                      !.picked = "Bubble", !.pickedIndex = 0]]
                 ELSE [w EXCEPT !.editor = ed1]

(* the block "Resizing" of MouseMoved *)
Resizing(w, mpos, tex, floorW, floorH) ==
    LET ed == w.editor
    IN  IF ed.resizing /\ ed.resizeIndex >= 0
        THEN LET delta == <<mpos[1] - ed.resizeStartMouse[1],
                            mpos[2] - ed.resizeStartMouse[2]>>
                 sum   == <<ed.resizeStartSize[1] + delta[1],
                            ed.resizeStartSize[2] + delta[2]>>
                 newSize == <<IF sum[1] < floorW THEN floorW ELSE sum[1],
                              IF sum[2] < floorH THEN floorH ELSE sum[2]>>
             IN  IF ed.resizeKind = "Bubble"
                 THEN [w EXCEPT !.bubble =
                          setPosition(setSize(w.bubble, newSize[1], newSize[2], tex),
                                      ed.resizeStartPos[1], ed.resizeStartPos[2])]
                 ELSE IF ed.resizeKind = "Sprite"
                 THEN [w EXCEPT !.character =
                          CanvasObject_setPosition(
                              CanvasObject_setSize(w.character, newSize[1], newSize[2]),
                              ed.resizeStartPos[1], ed.resizeStartPos[2])]
                 ELSE w
        ELSE w

(* the blocks "Drag characters" and "Drag bubbles" of MouseMoved *)
Dragging(w, mpos) ==
    LET ed == w.editor
        newPos == <<mpos[1] - ed.dragOffset[1], mpos[2] - ed.dragOffset[2]>>
        w1 == IF ed.draggingSprite /\ ed.dragSpriteIdx >= 0
              THEN [w EXCEPT !.character =
                       CanvasObject_setPosition(w.character, newPos[1], newPos[2])]
              ELSE w
    IN  IF ed.draggingBubble /\ ed.dragBubbleIdx >= 0
        THEN [w1 EXCEPT !.bubble = setPosition(w1.bubble, newPos[1], newPos[2])]
        ELSE w1

(* mutant: the new size is not held at the floor *)
MouseMoved_noFloor(w, mpos, tex) == Dragging(Resizing(w, mpos, tex, -10000, -10000), mpos)

(* MouseMoved *)
MouseMoved(w, mpos, tex) == Dragging(Resizing(w, mpos, tex, 60, 40), mpos)

(* MouseButtonReleased *)
MouseButtonReleased(w) ==
    [w EXCEPT !.editor = [@ EXCEPT !.resizing = FALSE, !.resizeKind = "None",
                                   !.resizeIndex = -1,
                                   !.draggingSprite = FALSE, !.draggingBubble = FALSE,
                                   !.dragSpriteIdx = -1, !.dragBubbleIdx = -1]]

-----------------------------------------------------------------------------
(* What an observer of the editor sees.  The observer variables record     *)
(* what the calls did; no operation of the program reads them.              *)

Collections(s) ==
    [characters |-> s.characters, bubbles |-> s.bubbles, strokes |-> s.strokes]

(* the collections and the font size of every bubble in the scene *)
Scene(s) ==
    [characters |-> s.characters, bubbles |-> s.bubbles, strokes |-> s.strokes,
     fontSize |-> [b \in Range(s.bubbles) \cap DOMAIN s.fontSize |-> s.fontSize[b]]]

EmptyScene ==
    [characters |-> <<>>, bubbles |-> <<>>, strokes |-> <<>>, fontSize |-> <<>>]

NoCommand == Command(NULL, "AddStroke", NULL, 0, NULL, 0, 0)

NoExec == [scene |-> EmptyScene, top |-> NoCommand, dropped |-> <<>>]

AddKinds == {"AddCharacter", "AddBubble", "AddStroke"}

(* no command is being called directly *)
NoDirect ==
    [cmd |-> NoCommand, life |-> "Pending", was |-> "Pending", op |-> "none",
     before |-> [state |-> EmptyScene, cmd |-> NoCommand], calls |-> 0]

(* the state of the variables of a unit no call of which is being made *)
UnitsIdle ==
    /\ direct = NoDirect
    /\ bubble = NoBubble
    /\ textures = {}
    /\ stroke = NoStroke
    /\ character = NoCharacter
    /\ fonts = {"actionman"}
    /\ editor = NoEditor
    /\ last = NoCall

Logged(s) == s.undoStack \o s.redoStack

(* the payloads the logged commands of the given kinds own *)
Held(s, kinds) ==
    {c.payload : c \in {x \in Range(Logged(s)) : x.kind \in kinds}} \ {NULL}

LiveCharacters(s) == Range(s.characters) \cup Held(s, {"AddCharacter", "DeleteCharacter"})
LiveStrokes(s) == Range(s.strokes) \cup Held(s, {"AddStroke"})
LiveBubbles(s) == Range(s.bubbles) \cup Held(s, {"AddBubble", "DeleteBubble"})

(* the bubbles some logged font-size command points to *)
Targets(s) ==
    {c.target : c \in {x \in Range(Logged(s)) : x.kind = "ChangeBubbleFontSize"}} \ {NULL}

(* operator new: the allocator hands out an identity no live object has.    *)
(* The least one is taken; which one is taken affects no operation.         *)
Fresh(used) ==
    CHOOSE i \in 1..(Cardinality(used) + 1) :
        i \notin used /\ \A j \in 1..(i - 1) : j \in used

NewCommandId(s) == Fresh({c.id : c \in Range(Logged(s))})

-----------------------------------------------------------------------------
(* Initial state: main.cpp constructs an empty scene and an empty manager *)

Init ==
    /\ characters = <<>>
    /\ bubbles = <<>>
    /\ strokes = <<>>
    /\ fontSize = <<>>
    /\ ub = FALSE
    /\ undoStack = <<>>
    /\ redoStack = <<>>
    /\ lastOp = "init"
    /\ phase = "idle"
    /\ preExec = Collections(EmptyScene)
    /\ postExec = NoExec
    /\ run = [pure |-> TRUE, cmds |-> <<>>]
    /\ timeline = [tracked |-> TRUE, base |-> EmptyScene, after |-> <<>>]
    /\ nOps = 0
    /\ added = <<>>
    /\ UnitsIdle

(* the program state becomes s *)
Assign(s) ==
    /\ characters' = s.characters
    /\ bubbles' = s.bubbles
    /\ strokes' = s.strokes
    /\ fontSize' = s.fontSize
    /\ ub' = s.ub
    /\ undoStack' = s.undoStack
    /\ redoStack' = s.redoStack

(* one more call of the manager, after which the program state is s *)
Calls(s) ==
    /\ nOps' = IF nOps < MaxOps THEN nOps + 1 ELSE nOps
    /\ Assign(s)

(* the program state becomes s, by one more call of the manager *)
Becomes(s) ==
    /\ Calls(s)
    /\ UNCHANGED unitVars

(* the entities the Add commands logged in s were built with, cmd being new *)
AddedAfter(cmd, s) ==
    [i \in {c.id : c \in {x \in Range(Logged(s)) : x.kind \in AddKinds}} |->
        IF i = cmd.id THEN cmd.payload ELSE added[i]]

(* the timeline after cmd was executed and the state became s2 *)
TimelineAfterExecute(s2) ==
    IF ~timeline.tracked \/ nOps >= MaxOps
    THEN [tracked |-> FALSE, base |-> EmptyScene, after |-> <<>>]
    ELSE LET kept == SubSeq(timeline.after, 1, Len(undoStack))
             all  == Append(kept, [id |-> back(s2.undoStack).id, scene |-> Scene(s2)])
         IN  IF Len(all) > Len(s2.undoStack)
             THEN [tracked |-> TRUE, base |-> Head(all).scene, after |-> Tail(all)]
             ELSE [tracked |-> TRUE, base |-> timeline.base, after |-> all]

(* commandManager.executeCommand(cmd) from the state s0 in which cmd was built *)
Executes(cmd, s0) ==
    LET s2 == CommandManager_executeCommand(cmd, s0)
    IN  /\ Calls(s2)
        /\ lastOp' = "execute"
        /\ phase' = "executed"
        /\ preExec' = Collections(State)
        /\ postExec' = [scene |-> Scene(s2), top |-> back(s2.undoStack),
                        dropped |-> redoStack]
        /\ run' = IF run.pure
                  THEN [run EXCEPT !.cmds = Append(@, back(s2.undoStack))]
                  ELSE run
        /\ timeline' = TimelineAfterExecute(s2)
        /\ added' = AddedAfter(cmd, s2)

(* the same, by a caller that holds no other object *)
Execute(cmd, s0) ==
    /\ Executes(cmd, s0)
    /\ UNCHANGED unitVars

(* main.cpp palette click on a character *)
ExecAddCharacter ==
    Execute(Command(NewCommandId(State), "AddCharacter",
                    Fresh(LiveCharacters(State)), 0, NULL, 0, 0), State)

(* main.cpp palette click on a bubble: the bubble is built, then added *)
ExecAddBubble ==
    LET b == Fresh(LiveBubbles(State) \cup Targets(State))
    IN  Execute(Command(NewCommandId(State), "AddBubble", b, 0, NULL, 0, 0),
                SpeechBubble_new(State, b))

(* main.cpp canvas press in draw mode *)
ExecAddStroke ==
    Execute(Command(NewCommandId(State), "AddStroke",
                    Fresh(LiveStrokes(State)), 0, NULL, 0, 0), State)

(* DeleteCharacterCommand(characters, idx), any idx from -1 to size() *)
ExecDeleteCharacter ==
    \E idx \in -1..Len(characters) :
        Execute(Command(NewCommandId(State), "DeleteCharacter",
                        NULL, idx, NULL, 0, 0), State)

(* DeleteBubbleCommand(bubbles, idx), any idx from -1 to size() *)
ExecDeleteBubble ==
    \E idx \in -1..Len(bubbles) :
        Execute(Command(NewCommandId(State), "DeleteBubble",
                        NULL, idx, NULL, 0, 0), State)

(* ChangeBubbleFontSizeCommand(b, oldSize, newSize): b is a bubble of the    *)
(* scene and oldSize its size before the change, as main.cpp builds it, or  *)
(* b is nullptr.                                                            *)
ExecChangeBubbleFontSize ==
    \/ \E b \in Range(bubbles), new \in FontSizes :
        Execute(Command(NewCommandId(State), "ChangeBubbleFontSize",
                        NULL, 0, b, fontSize[b], new), State)
    \/ Execute(Command(NewCommandId(State), "ChangeBubbleFontSize",
                       NULL, 0, NULL, DefaultFontSize, 30), State)


(* commandManager.undo() *)
Undoes ==
    /\ Calls(CommandManager_undo(State))
    /\ lastOp' = "undo"
    /\ phase' = IF phase = "executed" THEN "undone" ELSE "idle"
    /\ preExec' = IF phase = "executed" THEN preExec ELSE Collections(EmptyScene)
    /\ postExec' = IF phase = "executed" THEN postExec
                   ELSE NoExec
    /\ run' = [pure |-> FALSE, cmds |-> <<>>]
    /\ UNCHANGED <<timeline, added>>

(* the same, by a caller that holds no other object *)
Undo ==
    /\ Undoes
    /\ UNCHANGED unitVars

(* commandManager.redo() *)
Redoes ==
    /\ Calls(CommandManager_redo(State))
    /\ lastOp' = "redo"
    /\ phase' = IF phase = "undone" THEN "redone" ELSE "idle"
    /\ preExec' = IF phase = "undone" THEN preExec ELSE Collections(EmptyScene)
    /\ postExec' = IF phase = "undone" THEN postExec
                   ELSE NoExec
    /\ run' = [pure |-> FALSE, cmds |-> <<>>]
    /\ UNCHANGED <<timeline, added>>

(* the same, by a caller that holds no other object *)
Redo ==
    /\ Redoes
    /\ UNCHANGED unitVars

(* commandManager.clear() *)
Clear ==
    LET s2 == CommandManager_clear(State)
    IN  /\ Becomes(s2)
        /\ lastOp' = "clear"
        /\ phase' = "idle"
        /\ preExec' = Collections(EmptyScene)
        /\ postExec' = NoExec
        /\ run' = [pure |-> TRUE, cmds |-> <<>>]
        /\ timeline' = [tracked |-> TRUE, base |-> Scene(s2), after |-> <<>>]
        /\ added' = <<>>

(* the first MaxOps calls of a session, in any order *)
InSession == nOps < MaxOps

Next ==
    \/ InSession /\ ExecAddCharacter
    \/ InSession /\ ExecAddBubble
    \/ InSession /\ ExecAddStroke
    \/ InSession /\ ExecDeleteCharacter
    \/ InSession /\ ExecDeleteBubble
    \/ InSession /\ ExecChangeBubbleFontSize
    \/ InSession /\ Undo
    \/ InSession /\ Redo
    \/ InSession /\ Clear

Spec == Init /\ [][Next]_vars

-----------------------------------------------------------------------------
(* A deep history: a session in which strokes are drawn one after the      *)
(* other and undone and redone, a new stroke being drawn only when nothing  *)
(* is left to redo.  It reaches the history limit of maxHistorySize.        *)

ExecuteStroke ==
    /\ Len(strokes) < MaxDeepStrokes
    /\ redoStack = <<>>
    /\ Execute(Command(NewCommandId(State), "AddStroke",
                       Fresh(LiveStrokes(State)), 0, NULL, 0, 0), State)

NextHistory == ExecuteStroke \/ Undo \/ Redo \/ Clear

SpecHistory == Init /\ [][NextHistory]_vars

-----------------------------------------------------------------------------
(* A session on a populated scene: five characters and two bubbles were     *)
(* added and clear() was called (seven executeCommand calls and a clear()   *)
(* from Init), and the session goes on with any MaxPopulatedOps calls.      *)

PopulatedScene ==
    [characters |-> <<1, 2, 3, 4, 5>>, bubbles |-> <<1, 2>>, strokes |-> <<>>,
     fontSize |-> [b \in {1, 2} |-> DefaultFontSize]]

InitPopulated ==
    /\ characters = PopulatedScene.characters
    /\ bubbles = PopulatedScene.bubbles
    /\ strokes = PopulatedScene.strokes
    /\ fontSize = PopulatedScene.fontSize
    /\ ub = FALSE
    /\ undoStack = <<>>
    /\ redoStack = <<>>
    /\ lastOp = "clear"
    /\ phase = "idle"
    /\ preExec = Collections(EmptyScene)
    /\ postExec = NoExec
    /\ run = [pure |-> TRUE, cmds |-> <<>>]
    /\ timeline = [tracked |-> TRUE, base |-> PopulatedScene, after |-> <<>>]
    /\ nOps = 0
    /\ added = <<>>
    /\ UnitsIdle

Continuing == nOps < MaxPopulatedOps

NextPopulated ==
    \/ Continuing /\ ExecAddCharacter
    \/ Continuing /\ ExecAddBubble
    \/ Continuing /\ ExecAddStroke
    \/ Continuing /\ ExecDeleteCharacter
    \/ Continuing /\ ExecDeleteBubble
    \/ Continuing /\ ExecChangeBubbleFontSize
    \/ Continuing /\ Undo
    \/ Continuing /\ Redo
    \/ Continuing /\ Clear

SpecPopulated == InitPopulated /\ [][NextPopulated]_vars

-----------------------------------------------------------------------------
(* A session on a full history: a few commands were executed, then strokes  *)
(* were drawn, then a few commands were executed again, until the undo log  *)
(* held maxHistorySize - 1 or maxHistorySize commands (executeCommand calls *)
(* only, from Init), and the session goes on with any MaxFullOps calls, the *)
(* first executeCommand calls of which evict the oldest commands.           *)

FullHistories ==
    {[first |-> <<>>, then |-> <<>>],
     [first |-> <<"AddBubble", "ChangeBubbleFontSize">>, then |-> <<>>],
     [first |-> <<"AddBubble", "ChangeBubbleFontSize", "DeleteBubble">>, then |-> <<>>],
     [first |-> <<"AddBubble", "AddBubble", "DeleteBubble">>, then |-> <<>>],
     [first |-> <<"AddCharacter", "AddCharacter", "DeleteCharacter">>, then |-> <<>>],
     [first |-> <<"AddBubble">>, then |-> <<"ChangeBubbleFontSize", "DeleteBubble">>],
     [first |-> <<"AddBubble", "AddCharacter">>,
      then |-> <<"DeleteCharacter", "ChangeBubbleFontSize">>]}

FullLengths == {maxHistorySize - 1, maxHistorySize}

(* the command main.cpp builds of the given kind in state s: a Delete       *)
(* command for the last entity, a font-size command for the last bubble     *)
BuiltCommand(kind, s) ==
    CASE kind = "AddCharacter" ->
            Command(NewCommandId(s), kind, Fresh(LiveCharacters(s)), 0, NULL, 0, 0)
      [] kind = "AddBubble" ->
            Command(NewCommandId(s), kind, Fresh(LiveBubbles(s) \cup Targets(s)),
                    0, NULL, 0, 0)
      [] kind = "AddStroke" ->
            Command(NewCommandId(s), kind, Fresh(LiveStrokes(s)), 0, NULL, 0, 0)
      [] kind = "DeleteCharacter" ->
            Command(NewCommandId(s), kind, NULL, Len(s.characters) - 1, NULL, 0, 0)
      [] kind = "DeleteBubble" ->
            Command(NewCommandId(s), kind, NULL, Len(s.bubbles) - 1, NULL, 0, 0)
      [] kind = "ChangeBubbleFontSize" ->
            Command(NewCommandId(s), kind, NULL, 0, back(s.bubbles),
                    s.fontSize[back(s.bubbles)], 30)

(* the session before any call: the state, what the observer recorded *)
NewSession ==
    [s |-> [characters |-> <<>>, bubbles |-> <<>>, strokes |-> <<>>,
            fontSize |-> <<>>, ub |-> FALSE, undoStack |-> <<>>, redoStack |-> <<>>],
     added |-> <<>>, before |-> Collections(EmptyScene)]

(* the session w0 after commandManager.executeCommand of a command of each  *)
(* of the kinds, in order                                                   *)
RECURSIVE AfterCommands(_, _)
AfterCommands(w0, kinds) ==
    IF kinds = <<>>
    THEN w0
    ELSE LET w    == AfterCommands(w0, pop_back(kinds))
             cmd  == BuiltCommand(back(kinds), w.s)
             s0   == IF cmd.kind = "AddBubble"
                     THEN SpeechBubble_new(w.s, cmd.payload) ELSE w.s
             s2   == CommandManager_executeCommand(cmd, s0)
             adds == {c.id : c \in {x \in Range(Logged(s2)) : x.kind \in AddKinds}}
         IN  [s |-> s2,
              added |-> [i \in adds |-> IF i = cmd.id THEN cmd.payload ELSE w.added[i]],
              before |-> Collections(w.s)]

(* the session w, which drew no stroke and undid nothing, after m >= 1     *)
(* executeCommand calls of an AddStrokeCommand each: stroke i is appended   *)
(* by the i-th command, which stays on the undo log, executed               *)
AfterStrokes(w, m) ==
    LET k == Len(w.s.undoStack)
        drawn(i) == [Command(k + i, "AddStroke", NULL, 0, NULL, 0, 0)
                        EXCEPT !.isExecuted = TRUE]
    IN  [s |-> [w.s EXCEPT !.strokes = [i \in 1..m |-> i],
                           !.undoStack = @ \o [i \in 1..m |-> drawn(i)]],
         added |-> [i \in (DOMAIN w.added) \cup ((k + 1)..(k + m)) |->
                       IF i > k THEN i - k ELSE w.added[i]],
         before |-> [Collections(w.s) EXCEPT !.strokes = [i \in 1..(m - 1) |-> i]]]

InitFull ==
    \E h \in FullHistories, n \in FullLengths :
        LET w == AfterCommands(AfterStrokes(AfterCommands(NewSession, h.first),
                                            n - Len(h.first) - Len(h.then)),
                               h.then)
        IN  /\ characters = w.s.characters
            /\ bubbles = w.s.bubbles
            /\ strokes = w.s.strokes
            /\ fontSize = w.s.fontSize
            /\ ub = w.s.ub
            /\ undoStack = w.s.undoStack
            /\ redoStack = w.s.redoStack
            /\ lastOp = "execute"
            /\ phase = "executed"
            /\ preExec = w.before
            /\ postExec = [scene |-> Scene(w.s), top |-> back(w.s.undoStack),
                           dropped |-> <<>>]
            /\ run = [pure |-> TRUE, cmds |-> w.s.undoStack]
            /\ timeline = [tracked |-> FALSE, base |-> EmptyScene, after |-> <<>>]
            /\ nOps = 0
            /\ added = w.added
            /\ UnitsIdle

GoingOn == nOps < MaxFullOps

NextFull ==
    \/ GoingOn /\ ExecAddCharacter
    \/ GoingOn /\ ExecAddBubble
    \/ GoingOn /\ ExecAddStroke
    \/ GoingOn /\ ExecDeleteCharacter
    \/ GoingOn /\ ExecDeleteBubble
    \/ GoingOn /\ ExecChangeBubbleFontSize
    \/ GoingOn /\ Undo
    \/ GoingOn /\ Redo
    \/ GoingOn /\ Clear

SpecFull == InitFull /\ [][NextFull]_vars

-----------------------------------------------------------------------------
(* One command object called directly: execute() and undo() of the command  *)
(* classes are public, so a caller holding a command may call them in any   *)
(* order.  The scene is one the editor can be in with empty logs (entities  *)
(* were added, then clear() was called).                                    *)

DirectScenes ==
    {[characters |-> cs, bubbles |-> bs, strokes |-> ss,
      fontSize |-> [b \in Range(bs) |-> DefaultFontSize], ub |-> FALSE,
      undoStack |-> <<>>, redoStack |-> <<>>] :
        cs \in {<<>>, <<1>>, <<1, 2>>}, bs \in {<<>>, <<1>>, <<1, 2>>},
        ss \in {<<>>, <<1>>}}

(* the sizes a font-size command is built with *)
DirectSizes == FontSizes \cup {18}

(* the commands a caller can build on the scene s *)
DirectCommands(s) ==
    {Command(1, "AddCharacter", Fresh(Range(s.characters)), 0, NULL, 0, 0),
     Command(1, "AddBubble", Fresh(Range(s.bubbles)), 0, NULL, 0, 0),
     Command(1, "AddStroke", Fresh(Range(s.strokes)), 0, NULL, 0, 0)}
    \cup {Command(1, "DeleteCharacter", NULL, i, NULL, 0, 0) :
              i \in -1..Len(s.characters)}
    \cup {Command(1, "DeleteBubble", NULL, i, NULL, 0, 0) :
              i \in -1..Len(s.bubbles)}
    \cup {Command(1, "ChangeBubbleFontSize", NULL, 0, b, old, new) :
              b \in Range(s.bubbles) \cup {NULL},
              old \in DirectSizes, new \in DirectSizes}

InitDirect ==
    \E s \in DirectScenes : \E c \in DirectCommands(s) :
        LET s0 == IF c.kind = "AddBubble" THEN SpeechBubble_new(s, c.payload) ELSE s
        IN  /\ characters = s0.characters
            /\ bubbles = s0.bubbles
            /\ strokes = s0.strokes
            /\ fontSize = s0.fontSize
            /\ ub = FALSE
            /\ undoStack = <<>>
            /\ redoStack = <<>>
            /\ lastOp = "clear"
            /\ phase = "idle"
            /\ preExec = Collections(EmptyScene)
            /\ postExec = NoExec
            /\ run = [pure |-> TRUE, cmds |-> <<>>]
            /\ timeline = [tracked |-> FALSE, base |-> EmptyScene, after |-> <<>>]
            /\ nOps = 0
            /\ added = <<>>
            /\ direct = [NoDirect EXCEPT !.cmd = c,
                                         !.before = [state |-> s0, cmd |-> c]]
            /\ bubble = NoBubble
            /\ textures = {}
            /\ stroke = NoStroke
            /\ character = NoCharacter
            /\ fonts = {"actionman"}
            /\ editor = NoEditor
            /\ last = NoCall

(* the direct call op returned r *)
DirectCall(op, r) ==
    /\ direct.calls < MaxDirectCalls
    /\ Assign(r.s)
    /\ direct' = [cmd |-> r.cmd,
                  life |-> CASE op = "execute" -> "Executed"
                             [] direct.life = "Executed" -> "Undone"
                             [] OTHER -> direct.life,
                  was |-> direct.life, op |-> op,
                  before |-> [state |-> State, cmd |-> direct.cmd],
                  calls |-> direct.calls + 1]
    /\ UNCHANGED obsVars
    /\ UNCHANGED <<bubble, textures, stroke, last, character, fonts, editor>>

(* cmd->execute() *)
DirectExecute == DirectCall("execute", Command_execute(direct.cmd, State))

(* cmd->undo() *)
DirectUndo == DirectCall("undo", Command_undo(direct.cmd, State))

NextDirect == DirectExecute \/ DirectUndo

SpecDirect == InitDirect /\ [][NextDirect]_vars

-----------------------------------------------------------------------------
(* One SpeechBubble object and the calls a holder of it can make.  The      *)
(* textures are those autoLoadBubbles found at start-up.                    *)

(* the texts a bubble is given: none, one word, two words, two lines *)
Texts ==
    {<<>>,
     <<"a", "a", "b">>,
     <<"a", "b", " ", "b", "a">>,
     <<"a", " ", "b", "\n", "a", "b">>}

(* widths and heights: the spawn size of main.cpp and two narrow sizes *)
BubbleSizes == {<<30, 40>>, <<60, 40>>, <<280, 120>>}

Styles == {"speech", "thought", "shout"}

(* the stems of the image files the bubble directory may hold *)
BubbleImages == {"speech", "thought"}

(* the members of the object that do not change CommandManager's state *)
ObjectCall(call) ==
    /\ last' = call
    /\ UNCHANGED <<characters, bubbles, strokes, fontSize, ub, undoStack, redoStack>>
    /\ UNCHANGED obsVars
    /\ UNCHANGED direct

InitBubble ==
    \E stems \in SUBSET BubbleImages, text \in Texts, size \in BubbleSizes :
        /\ characters = <<>>
        /\ bubbles = <<>>
        /\ strokes = <<>>
        /\ fontSize = <<>>
        /\ ub = FALSE
        /\ undoStack = <<>>
        /\ redoStack = <<>>
        /\ lastOp = "init"
        /\ phase = "idle"
        /\ preExec = Collections(EmptyScene)
        /\ postExec = NoExec
        /\ run = [pure |-> TRUE, cmds |-> <<>>]
        /\ timeline = [tracked |-> FALSE, base |-> EmptyScene, after |-> <<>>]
        /\ nOps = 0
        /\ added = <<>>
        /\ direct = NoDirect
        /\ textures = AssetManager_autoLoadBubbles({}, stems)
        /\ bubble = SpeechBubble_SpeechBubble(text, 224, 24, size[1], size[2])
        /\ stroke = NoStroke
        /\ character = NoCharacter
        /\ fonts = {"actionman"}
        /\ editor = NoEditor
        /\ last = [op |-> "SpeechBubble"]

(* bubble.setText(text) *)
BubbleSetText ==
    \E text \in Texts :
        /\ bubble' = setText(bubble, text)
        /\ ObjectCall([op |-> "setText"])
        /\ UNCHANGED <<textures, stroke, character, fonts, editor>>

(* bubble.setSize(w, h) *)
BubbleSetSize ==
    \E size \in BubbleSizes :
        /\ bubble' = setSize(bubble, size[1], size[2], textures)
        /\ ObjectCall([op |-> "setSize"])
        /\ UNCHANGED <<textures, stroke, character, fonts, editor>>

(* setSize(sf::Vector2f) on the bubble as a CanvasObject *)
BubbleSetSizeVector2f ==
    \E size \in BubbleSizes :
        /\ bubble' = CanvasObject_setSizeVector2f(bubble, size)
        /\ ObjectCall([op |-> "setSizeVector2f"])
        /\ UNCHANGED <<textures, stroke, character, fonts, editor>>

(* bubble.setFontSize(size) *)
BubbleSetFontSize ==
    \E size \in FontSizes :
        /\ bubble' = setFontSize(bubble, size)
        /\ ObjectCall([op |-> "setFontSize"])
        /\ UNCHANGED <<textures, stroke, character, fonts, editor>>

(* bubble.setStyle(style) *)
BubbleSetStyle ==
    \E style \in Styles :
        /\ bubble' = setStyle(bubble, style, textures)
        /\ ObjectCall([op |-> "setStyle", hadImage |-> bubble.useImageBubble_])
        /\ UNCHANGED <<textures, stroke, character, fonts, editor>>

NextBubble ==
    \/ BubbleSetText
    \/ BubbleSetSize
    \/ BubbleSetSizeVector2f
    \/ BubbleSetFontSize
    \/ BubbleSetStyle

SpecBubble == InitBubble /\ [][NextBubble]_vars

-----------------------------------------------------------------------------
(* The polygon builders as functions of the style and the size: a bubble    *)
(* without image textures, built with any size and then given any style and *)
(* size.                                                                    *)

(* widths: negative, zero, least, narrower than the tail's offset, just     *)
(* below and at the tail's right end (12 + 18 + 5), and the spawn width     *)
GeometryWidths == {-1, 0, 1, 20, 34, 35, 280}

GeometryHeights == {-1, 0, 1, 40, 120}

GeometryStyles == {"speech", "speech_rectangle", "thought", "shout"}

InitGeometry ==
    \E w \in GeometryWidths, h \in GeometryHeights :
        /\ characters = <<>>
        /\ bubbles = <<>>
        /\ strokes = <<>>
        /\ fontSize = <<>>
        /\ ub = FALSE
        /\ undoStack = <<>>
        /\ redoStack = <<>>
        /\ lastOp = "init"
        /\ phase = "idle"
        /\ preExec = Collections(EmptyScene)
        /\ postExec = NoExec
        /\ run = [pure |-> TRUE, cmds |-> <<>>]
        /\ timeline = [tracked |-> FALSE, base |-> EmptyScene, after |-> <<>>]
        /\ nOps = 0
        /\ added = <<>>
        /\ direct = NoDirect
        /\ textures = {}
        /\ bubble = SpeechBubble_SpeechBubble(<<>>, 224, 24, w, h)
        /\ stroke = NoStroke
        /\ character = NoCharacter
        /\ fonts = {"actionman"}
        /\ editor = NoEditor
        /\ last = [op |-> "SpeechBubble"]

(* bubble.setSize(w, h), which rebuilds the polygon *)
GeometrySetSize ==
    \E w \in GeometryWidths, h \in GeometryHeights :
        /\ bubble' = setSize(bubble, w, h, textures)
        /\ ObjectCall([op |-> "setSize"])
        /\ UNCHANGED <<textures, stroke, character, fonts, editor>>

(* bubble.setStyle(style), which rebuilds the polygon *)
GeometrySetStyle ==
    \E style \in GeometryStyles :
        /\ bubble' = setStyle(bubble, style, textures)
        /\ ObjectCall([op |-> "setStyle", hadImage |-> bubble.useImageBubble_])
        /\ UNCHANGED <<textures, stroke, character, fonts, editor>>

NextGeometry == GeometrySetSize \/ GeometrySetStyle

SpecGeometry == InitGeometry /\ [][NextGeometry]_vars

-----------------------------------------------------------------------------
(* A bubble that is resized and restyled while some styles have a texture   *)
(* and others have none: setSize(w, h) and setStyle only.                   *)

(* the styles with a builder of their own, the default style, and a name no *)
(* builder is written for                                                   *)
RestyleStyles == {"speech", "speech_rectangle", "thought", "shout", "plain"}

InitRestyle ==
    \E stems \in SUBSET BubbleImages, size \in BubbleSizes :
        /\ characters = <<>>
        /\ bubbles = <<>>
        /\ strokes = <<>>
        /\ fontSize = <<>>
        /\ ub = FALSE
        /\ undoStack = <<>>
        /\ redoStack = <<>>
        /\ lastOp = "init"
        /\ phase = "idle"
        /\ preExec = Collections(EmptyScene)
        /\ postExec = NoExec
        /\ run = [pure |-> TRUE, cmds |-> <<>>]
        /\ timeline = [tracked |-> FALSE, base |-> EmptyScene, after |-> <<>>]
        /\ nOps = 0
        /\ added = <<>>
        /\ direct = NoDirect
        /\ textures = AssetManager_autoLoadBubbles({}, stems)
        /\ bubble = SpeechBubble_SpeechBubble(<<>>, 224, 24, size[1], size[2])
        /\ stroke = NoStroke
        /\ character = NoCharacter
        /\ fonts = {"actionman"}
        /\ editor = NoEditor
        /\ last = [op |-> "SpeechBubble", hadImage |-> FALSE, stale |-> FALSE]

(* bubble.setSize(w, h); stale tells that the size changed while the bubble *)
(* was drawn from an image and no polygon was built since                   *)
RestyleSetSize ==
    \E size \in BubbleSizes :
        /\ bubble' = setSize(bubble, size[1], size[2], textures)
        /\ ObjectCall([op |-> "setSize", hadImage |-> bubble.useImageBubble_,
                       stale |-> IF bubble.useImageBubble_
                                 THEN last.stale \/ <<size[1], size[2]>> # bubble.m_size
                                 ELSE FALSE])
        /\ UNCHANGED <<textures, stroke, character, fonts, editor>>

(* bubble.setStyle(style) *)
RestyleSetStyle ==
    \E style \in RestyleStyles :
        /\ bubble' = setStyle(bubble, style, textures)
        /\ ObjectCall([op |-> "setStyle", hadImage |-> bubble.useImageBubble_,
                       stale |-> last.stale])
        /\ UNCHANGED <<textures, stroke, character, fonts, editor>>

NextRestyle == RestyleSetSize \/ RestyleSetStyle

SpecRestyle == InitRestyle /\ [][NextRestyle]_vars

-----------------------------------------------------------------------------
(* wrapText as a function of the text, the width and the character size: a  *)
(* bubble built without text is given a font size and then a text.          *)

(* every text of up to MaxWrapLen characters over two letters, the space    *)
(* and the newline, and the text of the spec's scenario                     *)
WrapTexts ==
    UNION {[1..n -> {"a", "b", " ", "\n"}] : n \in 0..MaxWrapLen}
    \cup {<<"a", "b", "c", "d", "e", "f", "g", "h", "i", "j">>}

(* widths whose 80% hold no, one, two, four and eight characters of 10 px *)
WrapWidths == {0, 3, 5, 25, 50, 100}

(* font sizes: 2 px and 10 px per character, and the default's 12 px *)
WrapFontSizes == {4, 20, 24}

InitWrap ==
    \E w \in WrapWidths :
        /\ characters = <<>>
        /\ bubbles = <<>>
        /\ strokes = <<>>
        /\ fontSize = <<>>
        /\ ub = FALSE
        /\ undoStack = <<>>
        /\ redoStack = <<>>
        /\ lastOp = "init"
        /\ phase = "idle"
        /\ preExec = Collections(EmptyScene)
        /\ postExec = NoExec
        /\ run = [pure |-> TRUE, cmds |-> <<>>]
        /\ timeline = [tracked |-> FALSE, base |-> EmptyScene, after |-> <<>>]
        /\ nOps = 0
        /\ added = <<>>
        /\ direct = NoDirect
        /\ textures = {}
        /\ bubble = SpeechBubble_SpeechBubble(<<>>, 224, 24, w, 40)
        /\ stroke = NoStroke
        /\ character = NoCharacter
        /\ fonts = {"actionman"}
        /\ editor = NoEditor
        /\ last = [op |-> "SpeechBubble"]

(* bubble.setFontSize(size), before the bubble has a text *)
WrapSetFontSize ==
    \E size \in WrapFontSizes :
        /\ bubble.text_ = <<>>
        /\ bubble' = setFontSize(bubble, size)
        /\ ObjectCall([op |-> "setFontSize"])
        /\ UNCHANGED <<textures, stroke, character, fonts, editor>>

(* bubble.setText(text), once *)
WrapSetText ==
    \E text \in WrapTexts :
        /\ bubble.text_ = <<>>
        /\ bubble' = setText(bubble, text)
        /\ ObjectCall([op |-> "setText", text |-> text])
        /\ UNCHANGED <<textures, stroke, character, fonts, editor>>

NextWrap == WrapSetFontSize \/ WrapSetText

SpecWrap == InitWrap /\ [][NextWrap]_vars

-----------------------------------------------------------------------------
(* One Character object and the calls a holder of it can make *)

CharacterPositions == {<<0, 0>>, <<SidebarW + 24, 24>>}

(* the default size of the constructor and the spawn size of main.cpp *)
CharacterSizes == {<<64, 64>>, <<220, 220>>}

Rotations == {0, 90}

Expressions == {"neutral", "happy"}

ImagePaths == {"hero", "villain"}

InitCharacter ==
    \E pos \in CharacterPositions, size \in CharacterSizes :
        /\ characters = <<>>
        /\ bubbles = <<>>
        /\ strokes = <<>>
        /\ fontSize = <<>>
        /\ ub = FALSE
        /\ undoStack = <<>>
        /\ redoStack = <<>>
        /\ lastOp = "init"
        /\ phase = "idle"
        /\ preExec = Collections(EmptyScene)
        /\ postExec = NoExec
        /\ run = [pure |-> TRUE, cmds |-> <<>>]
        /\ timeline = [tracked |-> FALSE, base |-> EmptyScene, after |-> <<>>]
        /\ nOps = 0
        /\ added = <<>>
        /\ direct = NoDirect
        /\ textures = {}
        /\ fonts = {"actionman"}
        /\ bubble = NoBubble
        /\ stroke = NoStroke
        /\ editor = NoEditor
        /\ character = Character_Character("hero", "hero", pos[1], pos[2],
                                           size[1], size[2])
        /\ last = [op |-> "Character", before |-> NoCharacter]

(* the call op on the character, after which its members are c *)
CharacterCall(op, c) ==
    /\ character # NoCharacter
    /\ character' = c
    /\ ObjectCall([op |-> op, before |-> character])
    /\ UNCHANGED <<bubble, textures, stroke, fonts, editor>>

CharacterSetPosition ==
    \E pos \in CharacterPositions :
        CharacterCall("setPosition", CanvasObject_setPosition(character, pos[1], pos[2]))

CharacterSetSize ==
    \E size \in CharacterSizes :
        CharacterCall("setSize", CanvasObject_setSize(character, size[1], size[2]))

CharacterSetRotation ==
    \E degrees \in Rotations :
        CharacterCall("setRotation", CanvasObject_setRotation(character, degrees))

CharacterSetFlipped ==
    \E flipped \in BOOLEAN :
        CharacterCall("setFlipped", setFlipped(character, flipped))

CharacterSetExpression ==
    \E expr \in Expressions :
        CharacterCall("setExpression", setExpression(character, expr))

CharacterSetImagePath ==
    \E path \in ImagePaths :
        CharacterCall("setImagePath", setImagePath(character, path))

NextCharacter ==
    \/ CharacterSetPosition
    \/ CharacterSetSize
    \/ CharacterSetRotation
    \/ CharacterSetFlipped
    \/ CharacterSetExpression
    \/ CharacterSetImagePath

SpecCharacter == InitCharacter /\ [][NextCharacter]_vars

-----------------------------------------------------------------------------
(* Mouse gestures on the canvas: the scene holds the character and the      *)
(* bubble that two palette clicks spawned, and the mouse is pressed, moved  *)
(* and released.                                                            *)

(* the logical box <<x, y, width, height>> of a canvas object *)
BoxOf(o) == <<o.x_, o.y_, o.width_, o.height_>>

World == [editor |-> editor, bubble |-> bubble, character |-> character]

(* the points a press is made at: the resize handle of the bubble and of    *)
(* the character, the flip handle of the character, the body of the         *)
(* character, the part of the bubble right of the spawned character, and    *)
(* the empty canvas                                                         *)
PressPoints ==
    {<<bubble.x_ + bubble.width_ - 5, bubble.y_ + bubble.height_ - 5>>,
     <<character.x_ + character.width_ - 5, character.y_ + character.height_ - 5>>,
     <<character.x_ + character.width_ - 5, character.y_ + 5>>,
     <<character.x_ + 1, character.y_ + 1>>,
     <<bubble.x_ + bubble.width_ - 20, bubble.y_ + 20>>,
     <<1500, 900>>}

(* how far the mouse moves between two MouseMoved events *)
MoveDeltas == {<<-300, -300>>, <<-10, -90>>, <<0, 0>>, <<25, 15>>}

InitResize ==
    \E stems \in SUBSET {"speech"}, style \in {"speech", "thought"} :
        LET tex == AssetManager_autoLoadBubbles({}, stems)
            s0  == [characters |-> <<>>, bubbles |-> <<>>, strokes |-> <<>>,
                    fontSize |-> <<>>, ub |-> FALSE,
                    undoStack |-> <<>>, redoStack |-> <<>>]
            s1  == CommandManager_executeCommand(
                       Command(1, "AddCharacter", 1, 0, NULL, 0, 0), s0)
            s2  == CommandManager_executeCommand(
                       Command(2, "AddBubble", 1, 0, NULL, 0, 0), SpeechBubble_new(s1, 1))
        IN  /\ characters = s2.characters
            /\ bubbles = s2.bubbles
            /\ strokes = s2.strokes
            /\ fontSize = s2.fontSize
            /\ ub = s2.ub
            /\ undoStack = s2.undoStack
            /\ redoStack = s2.redoStack
            /\ lastOp = "init"
            /\ phase = "idle"
            /\ preExec = Collections(EmptyScene)
            /\ postExec = NoExec
            /\ run = [pure |-> TRUE, cmds |-> <<>>]
            /\ timeline = [tracked |-> FALSE, base |-> EmptyScene, after |-> <<>>]
            /\ nOps = 0
            /\ added = <<>>
            /\ direct = NoDirect
            /\ textures = tex
            /\ fonts = {"actionman"}
            /\ bubble = setStyle(SpeechBubble_SpeechBubble(<<>>, SidebarW + 24, 24, 280, 120),
                                 style, tex)
            /\ character = Character_Character("hero", "hero", SidebarW + 24, 24, 220, 220)
            /\ stroke = NoStroke
            /\ editor = NoEditor
            /\ last = [op |-> "spawn", down |-> FALSE, mouse |-> <<1500, 900>>,
                       events |-> 0, resized |-> FALSE,
                       pressMouse |-> <<0, 0>>,
                       atPress |-> [Bubble |-> <<0, 0, 0, 0>>, Sprite |-> <<0, 0, 0, 0>>]]

(* the event op, after which the world is w and the mouse at mpos *)
EditorEvent(op, w, mpos) ==
    /\ last.events < MaxEditorEvents
    /\ editor' = w.editor
    /\ bubble' = w.bubble
    /\ character' = w.character
    /\ last' = [last EXCEPT
                   !.op = op,
                   !.down = IF op = "MouseMoved" THEN @ ELSE op = "MouseButtonPressed",
                   !.mouse = mpos,
                   !.events = @ + 1,
                   !.resized = op = "MouseMoved" /\ editor.resizing
                                                 /\ editor.resizeIndex >= 0,
                   !.pressMouse = IF op = "MouseButtonPressed" THEN mpos ELSE @,
                   !.atPress = IF op = "MouseButtonPressed"
                               THEN [Bubble |-> BoxOf(bubble), Sprite |-> BoxOf(character)]
                               ELSE @]
    /\ UNCHANGED <<characters, bubbles, strokes, fontSize, ub, undoStack, redoStack>>
    /\ UNCHANGED obsVars
    /\ UNCHANGED <<direct, textures, stroke, fonts>>

(* the left button goes down at one of the press points *)
EditorPress ==
    \E mpos \in PressPoints :
        /\ ~last.down
        /\ EditorEvent("MouseButtonPressed", MouseButtonPressed(World, mpos), mpos)

(* the mouse moves *)
EditorMove ==
    \E d \in MoveDeltas :
        LET mpos == <<last.mouse[1] + d[1], last.mouse[2] + d[2]>>
        IN  EditorEvent("MouseMoved", MouseMoved(World, mpos, textures), mpos)

(* the left button goes up *)
EditorRelease ==
    /\ last.down
    /\ EditorEvent("MouseButtonReleased", MouseButtonReleased(World), last.mouse)

NextResize == EditorPress \/ EditorMove \/ EditorRelease

SpecResize == InitResize /\ [][NextResize]_vars

-----------------------------------------------------------------------------
(* One BrushStroke object and the calls a holder of it can make *)

(* the thickness a stroke is built with: below, at and above the one that   *)
(* gives the least spacing                                                  *)
Thicknesses == {<<1, 2>>, <<2, 1>>, <<3, 1>>}

(* the positions handed to beginAt and addPoint *)
StrokePoints == {<<(<<x, 1>>), (<<y, 1>>)>> : x \in 0..MaxCoord, y \in 0..1}

InitStroke ==
    \E thickness \in Thicknesses :
        /\ characters = <<>>
        /\ bubbles = <<>>
        /\ strokes = <<>>
        /\ fontSize = <<>>
        /\ ub = FALSE
        /\ undoStack = <<>>
        /\ redoStack = <<>>
        /\ lastOp = "init"
        /\ phase = "idle"
        /\ preExec = Collections(EmptyScene)
        /\ postExec = NoExec
        /\ run = [pure |-> TRUE, cmds |-> <<>>]
        /\ timeline = [tracked |-> FALSE, base |-> EmptyScene, after |-> <<>>]
        /\ nOps = 0
        /\ added = <<>>
        /\ direct = NoDirect
        /\ textures = {}
        /\ bubble = NoBubble
        /\ stroke = BrushStroke_BrushStroke(thickness)
        /\ character = NoCharacter
        /\ fonts = {"actionman"}
        /\ editor = NoEditor
        /\ last = [op |-> "BrushStroke", pos |-> <<(<<0, 1>>), (<<0, 1>>)>>,
                   before |-> <<>>, begun |-> FALSE, calls |-> 0]

(* the call op(pos) on the stroke *)
StrokeCall(op, pos) ==
    /\ last.calls < MaxStrokeCalls
    /\ ObjectCall([op |-> op, pos |-> pos, before |-> stroke.m_vertices,
                   begun |-> last.begun \/ op = "beginAt",
                   calls |-> last.calls + 1])
    /\ UNCHANGED <<bubble, textures, character, fonts, editor>>

(* stroke.beginAt(pos) *)
StrokeBeginAt ==
    \E pos \in StrokePoints :
        /\ stroke' = beginAt(stroke, pos)
        /\ StrokeCall("beginAt", pos)

(* stroke.addPoint(pos) *)
StrokeAddPoint ==
    \E pos \in StrokePoints :
        /\ stroke' = addPoint(stroke, pos)
        /\ StrokeCall("addPoint", pos)

NextStroke == StrokeBeginAt \/ StrokeAddPoint

SpecStroke == InitStroke /\ [][NextStroke]_vars

-----------------------------------------------------------------------------
(* One canvas object of any of the three classes, and the calls a holder of *)
(* it can make.                                                             *)

InitEntity == InitCharacter \/ InitBubble \/ InitStroke

IsBubble == bubble # NoBubble

IsStroke == stroke # NoStroke /\ last.calls < MaxHitStrokeCalls

NextEntity ==
    \/ CharacterSetPosition
    \/ CharacterSetSize
    \/ CharacterSetRotation
    \/ CharacterSetFlipped
    \/ CharacterSetExpression
    \/ CharacterSetImagePath
    \/ IsBubble /\ BubbleSetText
    \/ IsBubble /\ BubbleSetSize
    \/ IsBubble /\ BubbleSetSizeVector2f
    \/ IsBubble /\ BubbleSetFontSize
    \/ IsBubble /\ BubbleSetStyle
    \/ IsStroke /\ StrokeBeginAt
    \/ IsStroke /\ StrokeAddPoint

SpecEntity == InitEntity /\ [][NextEntity]_vars

-----------------------------------------------------------------------------
(* A canvas object of any of the three classes under the calls of           *)
(* CanvasObject, in both overloads, and a stroke under beginAt and addPoint *)

(* the offsets handed to move: back by the spawn position, and half of it   *)
(* forward                                                                  *)
MoveOffsets == {<<-224, -24>>, <<112, 12>>}

(* the object stays within CanvasExtent of the origin *)
OnCanvas(o) == Abs(o.x_) <= CanvasExtent /\ Abs(o.y_) <= CanvasExtent

CharacterMove ==
    \E d \in MoveOffsets :
        /\ character # NoCharacter
        /\ OnCanvas(CanvasObject_move(character, d[1], d[2]))
        /\ CharacterCall("move", CanvasObject_move(character, d[1], d[2]))

CharacterMoveVector2f ==
    \E d \in MoveOffsets :
        /\ character # NoCharacter
        /\ OnCanvas(CanvasObject_moveVector2f(character, d))
        /\ CharacterCall("moveVector2f", CanvasObject_moveVector2f(character, d))

CharacterSetPositionVector2f ==
    \E pos \in CharacterPositions :
        CharacterCall("setPositionVector2f", CanvasObject_setPositionVector2f(character, pos))

CharacterSetSizeVector2f ==
    \E size \in CharacterSizes :
        CharacterCall("setSizeVector2f", CanvasObject_setSizeVector2f(character, size))

(* bubble.setPosition(x, y) *)
BubbleSetPosition ==
    \E pos \in CharacterPositions :
        /\ bubble' = setPosition(bubble, pos[1], pos[2])
        /\ ObjectCall([op |-> "setPosition"])
        /\ UNCHANGED <<textures, stroke, character, fonts, editor>>

(* move(dx, dy) on the bubble as a CanvasObject *)
BubbleMove ==
    \E d \in MoveOffsets :
        /\ OnCanvas(CanvasObject_move(bubble, d[1], d[2]))
        /\ bubble' = CanvasObject_move(bubble, d[1], d[2])
        /\ ObjectCall([op |-> "move"])
        /\ UNCHANGED <<textures, stroke, character, fonts, editor>>

NextCanvas ==
    \/ CharacterMove
    \/ CharacterMoveVector2f
    \/ CharacterSetPosition
    \/ CharacterSetPositionVector2f
    \/ CharacterSetSize
    \/ CharacterSetSizeVector2f
    \/ CharacterSetRotation
    \/ IsBubble /\ BubbleSetPosition
    \/ IsBubble /\ BubbleMove
    \/ IsBubble /\ BubbleSetSize
    \/ IsBubble /\ BubbleSetSizeVector2f
    \/ IsStroke /\ StrokeBeginAt
    \/ IsStroke /\ StrokeAddPoint

SpecCanvas == InitEntity /\ [][NextCanvas]_vars

-----------------------------------------------------------------------------
(* Spawning from the palette (main.cpp): a click on a palette row builds    *)
(* the entity and hands it to the manager in an Add command; Ctrl+Z and     *)
(* Ctrl+Y undo and redo.  The fonts and textures are those the asset        *)
(* directories gave.  No handler of the event loop catches an exception:    *)
(* one that is thrown leaves main, and the program ends.                    *)

FontNames == {"actionman", "comic"}

CharacterImages == {"hero"}

InitSpawn ==
    \E fnts \in SUBSET FontNames, stems \in SUBSET BubbleImages,
       chars \in SUBSET CharacterImages :
        /\ characters = <<>>
        /\ bubbles = <<>>
        /\ strokes = <<>>
        /\ fontSize = <<>>
        /\ ub = FALSE
        /\ undoStack = <<>>
        /\ redoStack = <<>>
        /\ lastOp = "init"
        /\ phase = "idle"
        /\ preExec = Collections(EmptyScene)
        /\ postExec = NoExec
        /\ run = [pure |-> TRUE, cmds |-> <<>>]
        /\ timeline = [tracked |-> TRUE, base |-> EmptyScene, after |-> <<>>]
        /\ nOps = 0
        /\ added = <<>>
        /\ direct = NoDirect
        /\ textures = AssetManager_autoLoadBubbles(chars, stems)
        /\ fonts = fnts
        /\ bubble = NoBubble
        /\ character = NoCharacter
        /\ stroke = NoStroke
        /\ editor = NoEditor
        /\ last = [op |-> "init", key |-> "", threw |-> FALSE, events |-> 0,
                   before |-> State, bubbleBefore |-> NoBubble]

(* the event loop is running and takes one more event *)
Running == ~last.threw /\ last.events < MaxSpawnEvents

(* the event op on the row key was handled; threw tells whether an          *)
(* exception left the handler                                               *)
SpawnEvent(op, key, threw) ==
    last' = [op |-> op, key |-> key, threw |-> threw, events |-> last.events + 1,
             before |-> State, bubbleBefore |-> bubble]

(* an exception leaves the handler at a point where it has changed nothing *)
Throws(op, key) ==
    /\ SpawnEvent(op, key, TRUE)
    /\ UNCHANGED <<characters, bubbles, strokes, fontSize, ub, undoStack, redoStack>>
    /\ UNCHANGED obsVars
    /\ UNCHANGED <<direct, bubble, textures, stroke, character, fonts, editor>>

(* a click on a row of the bubble palette *)
SpawnBubble ==
    \E key \in Styles :
        LET made == make_unique_SpeechBubble(fonts, <<>>, SidebarW + 24, 24, 280, 120)
            b    == Fresh(LiveBubbles(State) \cup Targets(State))
        IN  IF made.thrown
            THEN Throws("spawnBubble", key)
            ELSE /\ bubble' = setStyle(made.object, key, textures)
                 /\ Executes(Command(NewCommandId(State), "AddBubble", b, 0, NULL, 0, 0),
                             SpeechBubble_new(State, b))
                 /\ editor' = [editor EXCEPT
                                  !.activeBubble = IF bubbles' = <<>> THEN "nullptr"
                                                   ELSE "bubbles.back()",
                                  !.picked = "Bubble",
                                  !.pickedIndex = Len(bubbles') - 1]
                 /\ SpawnEvent("spawnBubble", key, FALSE)
                 /\ UNCHANGED <<direct, textures, stroke, character, fonts>>

(* a click on a row of the character palette: without the texture of the    *)
(* row nothing is spawned                                                   *)
SpawnCharacter ==
    \E key \in ImagePaths :
        IF AssetManager_getTexture(textures, key)
        THEN /\ character' = Character_Character(key, key, SidebarW + 24, 24, 220, 220)
             /\ Executes(Command(NewCommandId(State), "AddCharacter",
                                 Fresh(LiveCharacters(State)), 0, NULL, 0, 0), State)
             /\ editor' = [editor EXCEPT !.activeBubble = "nullptr",
                                         !.picked = "Sprite",
                                         !.pickedIndex = Len(characters') - 1]
             /\ SpawnEvent("spawnCharacter", key, FALSE)
             /\ UNCHANGED <<direct, bubble, textures, stroke, fonts>>
        ELSE /\ SpawnEvent("spawnCharacter", key, FALSE)
             /\ UNCHANGED <<characters, bubbles, strokes, fontSize, ub,
                            undoStack, redoStack>>
             /\ UNCHANGED obsVars
             /\ UNCHANGED <<direct, bubble, textures, stroke, character, fonts, editor>>

(* what Ctrl+Z and Ctrl+Y do after the call of the manager *)
Deselects(op) ==
    /\ editor' = [editor EXCEPT !.picked = "None", !.pickedIndex = -1,
                                !.activeBubble = "nullptr"]
    /\ SpawnEvent(op, "", FALSE)
    /\ UNCHANGED <<direct, bubble, textures, stroke, character, fonts>>

(* Ctrl+Z *)
KeyUndo == Undoes /\ Deselects("undo")

(* Ctrl+Y *)
KeyRedo == Redoes /\ Deselects("redo")

NextSpawn ==
    \/ Running /\ SpawnBubble
    \/ Running /\ SpawnCharacter
    \/ Running /\ KeyUndo
    \/ Running /\ KeyRedo

SpecSpawn == InitSpawn /\ [][NextSpawn]_vars

-----------------------------------------------------------------------------
(* An editing session: the events of the event loop of main.cpp on a scene  *)
(* of bubbles and characters, in any order.  The entities are their         *)
(* identities, as in Spec; positions and sizes are left out, and a press on *)
(* the canvas is given by the hit test that succeeds first (which part of   *)
(* which entity is under the pointer).  editor holds the locals of main the *)
(* handlers share, bubble the text_ and fontName_ of every bubble that      *)
(* exists.  Draw mode is off.  The session starts after a few palette       *)
(* clicks (executeCommand calls from Init) with the button released.        *)

SessionHistories ==
    {<<>>,
     <<"AddCharacter", "AddBubble", "AddBubble">>,
     <<"AddBubble", "AddBubble", "AddCharacter", "AddCharacter">>}

TypedChars == {"a"}

(* the locals of main before any event *)
NoSelection ==
    [picked |-> "None", pickedIndex |-> -1, activeBubble |-> NULL,
     resizing |-> FALSE, resizeKind |-> "None", resizeIndex |-> -1,
     draggingSprite |-> FALSE, dragSpriteIdx |-> -1,
     draggingBubble |-> FALSE, dragBubbleIdx |-> -1,
     draggingTextSize |-> FALSE, textSizeOld |-> -1,
     currentTextSize |-> DefaultFontSize]

(* SpeechBubble::SpeechBubble("spawn", "", ...): the members of a new bubble *)
SpawnedMembers == [text_ |-> <<>>, fontName_ |-> "actionman"]

(* the members of the bubbles that exist when the font sizes are fs *)
MembersAfter(fs, members) ==
    [b \in DOMAIN fs |-> IF b \in DOMAIN members THEN members[b] ELSE SpawnedMembers]

(* the locals of main after the palette click that built a command of kind *)
AfterPaletteClick(ed, kind, s) ==
    IF kind = "AddBubble"
    THEN [ed EXCEPT !.activeBubble = IF s.bubbles = <<>> THEN NULL ELSE back(s.bubbles),
                    !.picked = "Bubble", !.pickedIndex = Len(s.bubbles) - 1]
    ELSE [ed EXCEPT !.activeBubble = NULL,
                    !.picked = "Sprite", !.pickedIndex = Len(s.characters) - 1]

InitSession ==
    \E h \in SessionHistories :
        LET w == AfterCommands(NewSession, h)
        IN  /\ characters = w.s.characters
            /\ bubbles = w.s.bubbles
            /\ strokes = w.s.strokes
            /\ fontSize = w.s.fontSize
            /\ ub = w.s.ub
            /\ undoStack = w.s.undoStack
            /\ redoStack = w.s.redoStack
            /\ lastOp = IF h = <<>> THEN "init" ELSE "execute"
            /\ phase = "idle"
            /\ preExec = Collections(EmptyScene)
            /\ postExec = NoExec
            /\ run = [pure |-> TRUE, cmds |-> w.s.undoStack]
            /\ timeline = [tracked |-> FALSE, base |-> EmptyScene, after |-> <<>>]
            /\ nOps = 0
            /\ added = w.added
            /\ direct = NoDirect
            /\ textures = {}
            /\ fonts = {"actionman"}
            /\ bubble = MembersAfter(w.s.fontSize, <<>>)
            /\ character = NoCharacter
            /\ stroke = NoStroke
            /\ editor = IF h = <<>> THEN NoSelection
                        ELSE AfterPaletteClick(NoSelection, back(h), w.s)
            /\ last = [op |-> "init", events |-> 0, down |-> FALSE,
                       grabbed |-> {}, touched |-> {}]

(* the event loop takes one more event; after undefined behaviour the       *)
(* program has no behaviour to follow                                       *)
InEventLoop == ~ub /\ last.events < MaxSessionEvents

ButtonUp == InEventLoop /\ ~last.down

(* the observer's record of the event op: down tells whether the left       *)
(* button is held, grabbed the entity a press began a resize or a drag on,  *)
(* touched the elements MouseMoved accessed through the indices             *)
SessionEvent(op, down, grabbed, touched) ==
    /\ last' = [op |-> op, events |-> last.events + 1, down |-> down,
                grabbed |-> grabbed, touched |-> touched]
    /\ UNCHANGED <<direct, textures, stroke, character, fonts>>

(* the handler called nothing of the manager *)
NoManagerCall ==
    /\ UNCHANGED <<characters, bubbles, strokes, undoStack, redoStack>>
    /\ UNCHANGED obsVars

(* activeBubble->setFontSize(size) *)
ThroughActiveSetFontSize(size) ==
    LET s2 == SpeechBubble_setFontSize(State, editor.activeBubble, size)
    IN  /\ fontSize' = s2.fontSize
        /\ ub' = s2.ub

(* palette click on a row of the bubble palette; the font is loaded *)
SessionSpawnBubble ==
    LET b == Fresh(LiveBubbles(State) \cup Targets(State))
    IN  /\ Executes(Command(NewCommandId(State), "AddBubble", b, 0, NULL, 0, 0),
                    SpeechBubble_new(State, b))
        /\ bubble' = MembersAfter(fontSize', bubble)
        /\ editor' = [editor EXCEPT
                         !.activeBubble = IF bubbles' = <<>> THEN NULL ELSE back(bubbles'),
                         !.picked = "Bubble", !.pickedIndex = Len(bubbles') - 1]
        /\ SessionEvent("spawnBubble", TRUE, last.grabbed, {})

(* palette click on a row of the character palette; the texture is loaded *)
SessionSpawnCharacter ==
    /\ Executes(Command(NewCommandId(State), "AddCharacter",
                        Fresh(LiveCharacters(State)), 0, NULL, 0, 0), State)
    /\ bubble' = MembersAfter(fontSize', bubble)
    /\ editor' = [editor EXCEPT !.activeBubble = NULL, !.picked = "Sprite",
                                !.pickedIndex = Len(characters') - 1]
    /\ SessionEvent("spawnCharacter", TRUE, last.grabbed, {})

(* palette click on a row of the font palette *)
SessionFontItem ==
    \E key \in FontNames :
        /\ IF editor.activeBubble = NULL
           THEN UNCHANGED <<bubble, ub>>
           ELSE IF editor.activeBubble \in DOMAIN bubble
           THEN /\ bubble' = [bubble EXCEPT ![editor.activeBubble].fontName_ = key]
                /\ ub' = ub
           ELSE /\ bubble' = bubble
                /\ ub' = TRUE
        /\ NoManagerCall
        /\ UNCHANGED <<fontSize, editor>>
        /\ SessionEvent("fontItem", TRUE, last.grabbed, {})

(* press on the text-size bar while the font palette is shown *)
SessionTextSizeBar ==
    \E size \in FontSizes :
        /\ editor' = [editor EXCEPT
                         !.draggingTextSize = TRUE,
                         !.textSizeOld = IF editor.activeBubble = NULL THEN -1
                                         ELSE IF editor.activeBubble \in DOMAIN fontSize
                                         THEN fontSize[editor.activeBubble] ELSE -1,
                         !.currentTextSize = size]
        /\ IF editor.activeBubble = NULL
           THEN UNCHANGED <<fontSize, ub>>
           ELSE ThroughActiveSetFontSize(size)
        /\ NoManagerCall
        /\ UNCHANGED bubble
        /\ SessionEvent("textSizeBar", TRUE, last.grabbed, {})

(* press on the Undo button, Ctrl+Z *)
SessionUndo(op, down) ==
    /\ Undoes
    /\ bubble' = MembersAfter(fontSize', bubble)
    /\ editor' = [editor EXCEPT !.picked = "None", !.pickedIndex = -1,
                                !.activeBubble = NULL]
    /\ SessionEvent(op, down, last.grabbed, {})

(* press on the Redo button, Ctrl+Y *)
SessionRedo(op, down) ==
    /\ Redoes
    /\ bubble' = MembersAfter(fontSize', bubble)
    /\ editor' = [editor EXCEPT !.picked = "None", !.pickedIndex = -1,
                                !.activeBubble = NULL]
    /\ SessionEvent(op, down, last.grabbed, {})

UndoButton == SessionUndo("undoButton", TRUE)
RedoButton == SessionRedo("redoButton", TRUE)
KeyPressedZ == SessionUndo("Ctrl+Z", last.down)
KeyPressedY == SessionRedo("Ctrl+Y", last.down)

(* KeyPressed, Backspace *)
KeyPressedBackspace ==
    /\ IF editor.activeBubble = NULL
       THEN UNCHANGED <<bubble, ub>>
       ELSE IF editor.activeBubble \in DOMAIN bubble
       THEN /\ bubble' = [bubble EXCEPT ![editor.activeBubble].text_ =
                             IF @ = <<>> THEN @ ELSE pop_back(@)]
            /\ ub' = ub
       ELSE /\ bubble' = bubble
            /\ ub' = TRUE
    /\ NoManagerCall
    /\ UNCHANGED <<fontSize, editor>>
    /\ SessionEvent("Backspace", last.down, last.grabbed, {})

(* mutant: the Delete key leaves activeBubble as it is *)
KeyPressedDelete_keepsActive ==
    /\ IF /\ editor.pickedIndex >= 0
          /\ editor.picked = "Bubble"
          /\ editor.pickedIndex < Len(bubbles)
       THEN /\ Executes(Command(NewCommandId(State), "DeleteBubble", NULL,
                                editor.pickedIndex, NULL, 0, 0), State)
            /\ editor' = [editor EXCEPT !.picked = "None", !.pickedIndex = -1]
       ELSE IF /\ editor.pickedIndex >= 0
               /\ editor.picked = "Sprite"
               /\ editor.pickedIndex < Len(characters)
       THEN /\ Executes(Command(NewCommandId(State), "DeleteCharacter", NULL,
                                editor.pickedIndex, NULL, 0, 0), State)
            /\ editor' = [editor EXCEPT !.picked = "None", !.pickedIndex = -1]
       ELSE /\ NoManagerCall
            /\ UNCHANGED <<fontSize, ub, editor>>
    /\ bubble' = MembersAfter(fontSize', bubble)
    /\ SessionEvent("Delete", last.down, last.grabbed, {})

(* KeyPressed, Delete *)
KeyPressedDelete ==
    /\ IF /\ editor.pickedIndex >= 0
          /\ editor.picked = "Bubble"
          /\ editor.pickedIndex < Len(bubbles)
       THEN /\ Executes(Command(NewCommandId(State), "DeleteBubble", NULL,
                                editor.pickedIndex, NULL, 0, 0), State)
            /\ editor' = [editor EXCEPT !.activeBubble = NULL,
                                        !.picked = "None", !.pickedIndex = -1]
       ELSE IF /\ editor.pickedIndex >= 0
               /\ editor.picked = "Sprite"
               /\ editor.pickedIndex < Len(characters)
       THEN /\ Executes(Command(NewCommandId(State), "DeleteCharacter", NULL,
                                editor.pickedIndex, NULL, 0, 0), State)
            /\ editor' = [editor EXCEPT !.picked = "None", !.pickedIndex = -1]
       ELSE /\ NoManagerCall
            /\ UNCHANGED <<fontSize, ub, editor>>
    /\ bubble' = MembersAfter(fontSize', bubble)
    /\ SessionEvent("Delete", last.down, last.grabbed, {})

(* TextEntered, a printable character *)
TextEntered ==
    \E u \in TypedChars :
        /\ IF editor.activeBubble = NULL
           THEN UNCHANGED <<bubble, ub>>
           ELSE IF editor.activeBubble \in DOMAIN bubble
           THEN /\ Len(bubble[editor.activeBubble].text_) < MaxTyped
                /\ bubble' = [bubble EXCEPT ![editor.activeBubble].text_ = Append(@, u)]
                /\ ub' = ub
           ELSE /\ bubble' = bubble
                /\ ub' = TRUE
        /\ NoManagerCall
        /\ UNCHANGED <<fontSize, editor>>
        /\ SessionEvent("TextEntered", last.down, last.grabbed, {})

(* what can be under the pointer at a press on the canvas: nothing, or the  *)
(* flip handle, the resize handle or the body of an entity, the first hit   *)
(* test of the handler that succeeds                                        *)
Hits ==
    {[part |-> "none", kind |-> "None", index |-> -1]} \cup
    [part : {"flipHandle", "handle", "body"}, kind : {"Bubble"},
     index : 0..(Len(bubbles) - 1)] \cup
    [part : {"flipHandle", "handle", "body"}, kind : {"Sprite"},
     index : 0..(Len(characters) - 1)]

(* MouseButtonPressed, left button, on the canvas, draw mode off *)
CanvasPressed(ed, hit, s) ==
    LET ed0 == [ed EXCEPT !.picked = "None", !.pickedIndex = -1, !.activeBubble = NULL]
        i   == hit.index
    IN  CASE hit.part = "none" -> ed0
          [] hit.part = "flipHandle" /\ hit.kind = "Bubble" ->
                [ed0 EXCEPT !.picked = "Bubble", !.pickedIndex = i,
                            !.activeBubble = s.bubbles[i + 1]]
          [] hit.part = "flipHandle" /\ hit.kind = "Sprite" ->
                [ed0 EXCEPT !.picked = "Sprite", !.pickedIndex = i]
          [] hit.part = "handle" /\ hit.kind = "Bubble" ->
                [ed0 EXCEPT !.resizing = TRUE, !.resizeKind = "Bubble",
                            !.resizeIndex = i, !.activeBubble = s.bubbles[i + 1],
                            !.picked = "Bubble", !.pickedIndex = i]
          [] hit.part = "handle" /\ hit.kind = "Sprite" ->
                [ed0 EXCEPT !.resizing = TRUE, !.resizeKind = "Sprite",
                            !.resizeIndex = i,
                            !.picked = "Sprite", !.pickedIndex = i]
          [] hit.part = "body" /\ hit.kind = "Sprite" ->
                [ed0 EXCEPT !.draggingSprite = TRUE, !.dragSpriteIdx = i,
                            !.picked = "Sprite", !.pickedIndex = i]
          [] hit.part = "body" /\ hit.kind = "Bubble" ->
                [ed0 EXCEPT !.draggingBubble = TRUE, !.dragBubbleIdx = i,
                            !.activeBubble = s.bubbles[i + 1],
                            !.picked = "Bubble", !.pickedIndex = i]

(* the entity a press on hit begins a resize or a drag on *)
Grabbed(hit, s) ==
    IF hit.part \in {"handle", "body"}
    THEN {[kind |-> hit.kind,
           id |-> IF hit.kind = "Bubble" THEN s.bubbles[hit.index + 1]
                  ELSE s.characters[hit.index + 1]]}
    ELSE {}

SessionPress ==
    \E hit \in Hits :
        /\ editor' = CanvasPressed(editor, hit, State)
        /\ NoManagerCall
        /\ UNCHANGED <<fontSize, ub, bubble>>
        /\ SessionEvent("MouseButtonPressed", TRUE, Grabbed(hit, State), {})

(* collection[index] of MouseMoved: the element accessed; operator[] past   *)
(* the end is undefined behaviour                                           *)
Access(via, kind, index, s) ==
    LET coll == IF kind = "Bubble" THEN s.bubbles ELSE s.characters
    IN  [via |-> via, kind |-> kind, index |-> index,
         inRange |-> index < Len(coll),
         id |-> IF index < Len(coll) THEN coll[index + 1] ELSE NULL]

(* the accesses MouseMoved makes in its blocks Resizing, Drag characters    *)
(* and Drag bubbles                                                         *)
Accesses(ed, s) ==
    (IF ed.resizing /\ ed.resizeIndex >= 0 /\ ed.resizeKind \in {"Bubble", "Sprite"}
     THEN {Access("resizeIndex", ed.resizeKind, ed.resizeIndex, s)} ELSE {}) \cup
    (IF ed.draggingSprite /\ ed.dragSpriteIdx >= 0
     THEN {Access("dragSpriteIdx", "Sprite", ed.dragSpriteIdx, s)} ELSE {}) \cup
    (IF ed.draggingBubble /\ ed.dragBubbleIdx >= 0
     THEN {Access("dragBubbleIdx", "Bubble", ed.dragBubbleIdx, s)} ELSE {})

(* MouseMoved: the text-size slider, then resizing and dragging *)
SessionMouseMoved ==
    \E size \in FontSizes :
        LET sliding == editor.draggingTextSize /\ editor.activeBubble # NULL
            s1  == IF sliding
                   THEN SpeechBubble_setFontSize(State, editor.activeBubble, size)
                   ELSE State
            acc == Accesses(editor, s1)
        IN  /\ sliding \/ size = DefaultFontSize
            /\ editor' = IF sliding THEN [editor EXCEPT !.currentTextSize = size]
                         ELSE editor
            /\ fontSize' = s1.fontSize
            /\ ub' = (s1.ub \/ \E a \in acc : ~a.inRange)
            /\ NoManagerCall
            /\ UNCHANGED bubble
            /\ SessionEvent("MouseMoved", last.down, last.grabbed, acc)

(* MouseButtonReleased: the text-size slider's command, then the end of     *)
(* every gesture                                                            *)
Released(ed) ==
    [ed EXCEPT !.draggingTextSize = FALSE, !.textSizeOld = -1,
               !.resizing = FALSE, !.resizeKind = "None", !.resizeIndex = -1,
               !.draggingSprite = FALSE, !.draggingBubble = FALSE,
               !.dragSpriteIdx = -1, !.dragBubbleIdx = -1]

SessionRelease ==
    /\ IF /\ editor.draggingTextSize
          /\ editor.textSizeOld # -1
          /\ editor.activeBubble # NULL
          /\ editor.textSizeOld # editor.currentTextSize
       THEN Executes(Command(NewCommandId(State), "ChangeBubbleFontSize", NULL, 0,
                             editor.activeBubble, editor.textSizeOld,
                             editor.currentTextSize), State)
       ELSE /\ NoManagerCall
            /\ UNCHANGED <<fontSize, ub>>
    /\ bubble' = MembersAfter(fontSize', bubble)
    /\ editor' = Released(editor)
    /\ SessionEvent("MouseButtonReleased", FALSE, {}, {})

NextSession ==
    \/ ButtonUp /\ SessionSpawnBubble
    \/ ButtonUp /\ SessionSpawnCharacter
    \/ ButtonUp /\ SessionFontItem
    \/ ButtonUp /\ SessionTextSizeBar
    \/ ButtonUp /\ UndoButton
    \/ ButtonUp /\ RedoButton
    \/ ButtonUp /\ SessionPress
    \/ InEventLoop /\ SessionMouseMoved
    \/ InEventLoop /\ last.down /\ SessionRelease
    \/ InEventLoop /\ KeyPressedZ
    \/ InEventLoop /\ KeyPressedY
    \/ InEventLoop /\ KeyPressedBackspace
    \/ InEventLoop /\ KeyPressedDelete
    \/ InEventLoop /\ TextEntered

SpecSession == InitSession /\ [][NextSession]_vars

-----------------------------------------------------------------------------
(* Properties *)

(* the collection an Add command of the given kind works on *)
CollectionOf(kind, s) ==
    CASE kind = "AddCharacter" -> s.characters
      [] kind = "AddBubble" -> s.bubbles
      [] kind = "AddStroke" -> s.strokes

Min(a, b) == IF a < b THEN a ELSE b

LoggedIds(s) == {c.id : c \in Range(Logged(s))}

NoDuplicates(v) == \A i, j \in 1..Len(v) : v[i] = v[j] => i = j

(* the payloads the commands of v of the given kinds own, in order *)
RECURSIVE PayloadsOf(_, _)
PayloadsOf(v, kinds) ==
    IF v = <<>> THEN <<>>
    ELSE (IF Head(v).kind \in kinds /\ Head(v).payload # NULL
          THEN <<Head(v).payload>> ELSE <<>>) \o PayloadsOf(Tail(v), kinds)

(* the collection a Delete command works on *)
TargetOf(c, coll) ==
    IF c.kind = "DeleteCharacter" THEN coll.characters ELSE coll.bubbles

IsDelete(c) == c.kind \in {"DeleteCharacter", "DeleteBubble"}

(* C1: executeCommand(cmd) followed immediately by undo() leaves every     *)
(* scene collection with the same entities in the same order as before the *)
(* executeCommand, for every kind of command.                               *)
C1_ExecuteUndoRestoresCollections ==
    phase = "undone" => Collections(State) = preExec

(* C1 witness: a character was deleted from the middle of the collection   *)
(* and the deletion was undone.                                             *)
C1_Witness ==
    /\ phase = "undone"
    /\ postExec.top.kind = "DeleteCharacter"
    /\ Len(preExec.characters) >= 2
    /\ postExec.scene.characters # preExec.characters
    /\ postExec.top.index < Len(preExec.characters) - 1

(* C2: executeCommand(cmd); undo(); redo() leaves the collections and the   *)
(* font sizes as they were right after the executeCommand, the command back *)
(* on top of the undo log and the redo log empty.                           *)
C2_ExecuteUndoRedoRestores ==
    phase = "redone" =>
        /\ Scene(State) = postExec.scene
        /\ undoStack # <<>>
        /\ back(undoStack) = postExec.top
        /\ redoStack = <<>>

(* C2 witness: a font-size change of a bubble of the scene to another size  *)
(* was executed, undone and redone.                                         *)
C2_Witness ==
    /\ phase = "redone"
    /\ postExec.top.kind = "ChangeBubbleFontSize"
    /\ postExec.top.target \in Range(bubbles)
    /\ postExec.top.newFontSize # postExec.top.previousFontSize

(* C3: after n executeCommand calls on a new or cleared manager, with no    *)
(* undo or redo in between, the undo log holds exactly min(n, 100) commands:*)
(* the most recent ones, in execution order; at n = 101 the first one is    *)
(* gone.                                                                    *)
C3_BoundedHistory ==
    run.pure =>
        LET n == Len(run.cmds)
            m == Min(n, maxHistorySize)
        IN  /\ Len(undoStack) = m
            /\ undoStack = SubSeq(run.cmds, n - m + 1, n)

(* C3 witness: 101 commands were executed; the log holds 100, the first     *)
(* command is not among them and the stroke it added is still in the scene. *)
C3_Witness ==
    /\ run.pure
    /\ Len(run.cmds) = maxHistorySize + 1
    /\ Len(undoStack) = maxHistorySize
    /\ run.cmds[1].id \notin LoggedIds(State)
    /\ Len(strokes) = maxHistorySize + 1

(* C4: right after every executeCommand the redo log is empty, whatever it  *)
(* held before, canRedo() is false and none of the commands it held is in   *)
(* a log any more.                                                          *)
C4_ExecuteClearsRedo ==
    lastOp = "execute" =>
        /\ redoStack = <<>>
        /\ ~CommandManager_canRedo(State)
        /\ \A i \in 1..Len(postExec.dropped) :
              postExec.dropped[i].id \notin LoggedIds(State)

(* C4 witness: a command was executed while the redo log held an undone one *)
C4_Witness ==
    /\ lastOp = "execute"
    /\ postExec.dropped # <<>>
    /\ undoStack # <<>>

(* C5: undo() on an empty undo log and redo() on an empty redo log change   *)
(* neither the logs nor the scene; canUndo() and canRedo() are false on a   *)
(* new or cleared manager.                                                  *)
C5_EmptyLogNoOp ==
    /\ [](lastOp \in {"init", "clear"} =>
            ~CommandManager_canUndo(State) /\ ~CommandManager_canRedo(State))
    /\ [][(lastOp' = "undo" /\ ~CommandManager_canUndo(State))
            => UNCHANGED progVars]_vars
    /\ [][(lastOp' = "redo" /\ ~CommandManager_canRedo(State))
            => UNCHANGED progVars]_vars

(* C5 witness: undo() was called with an empty undo log while the redo log  *)
(* held a command.                                                          *)
C5_Witness ==
    /\ lastOp = "undo"
    /\ undoStack = <<>>
    /\ phase = "idle"
    /\ Len(redoStack) = 1
    /\ nOps = 3

(* C6: a Delete command with 0 <= index < n removes exactly the element at  *)
(* that position, the others keeping their order, and its undo puts the     *)
(* same element back at that position.                                      *)
C6_DeleteAtIndex ==
    LET c   == postExec.top
        old == TargetOf(c, preExec)
        now == TargetOf(c, Collections(State))
        i   == c.index
    IN  (IsDelete(c) /\ 0 <= i /\ i < Len(old)) =>
            /\ phase \in {"executed", "redone"} =>
                  /\ Len(now) = Len(old) - 1
                  /\ \A j \in 1..i : now[j] = old[j]
                  /\ \A j \in (i + 1)..Len(now) : now[j] = old[j + 1]
                  /\ c.payload = old[i + 1]
            /\ phase = "undone" =>
                  /\ Len(now) = Len(old)
                  /\ now[i + 1] = c.payload
                  /\ now = old

(* C6 witness: the Delete command with index 2 was executed on a collection *)
(* of five characters and undone.                                           *)
C6_Witness ==
    /\ phase = "undone"
    /\ postExec.top.kind = "DeleteCharacter"
    /\ Len(preExec.characters) = 5
    /\ postExec.top.index = 2
    /\ Len(postExec.scene.characters) = 4
    /\ Len(characters) = 5

C9_LogsDisjoint ==
    /\ NoDuplicates([i \in 1..Len(Logged(State)) |-> Logged(State)[i].id])
    /\ NULL \notin LoggedIds(State)

(* C9 witness: both logs hold commands after an undo *)
C9_Witness ==
    /\ lastOp = "undo"
    /\ Len(undoStack) >= 1
    /\ Len(redoStack) >= 2

(* C10: every live entity has exactly one owner, a slot of one collection   *)
(* or the payload of one logged command; no collection has a null slot.     *)
C10_SingleOwner ==
    LET chars == characters \o PayloadsOf(Logged(State), {"AddCharacter", "DeleteCharacter"})
        bubs  == bubbles \o PayloadsOf(Logged(State), {"AddBubble", "DeleteBubble"})
        strks == strokes \o PayloadsOf(Logged(State), {"AddStroke"})
    IN  /\ NULL \notin Range(characters) \cup Range(bubbles) \cup Range(strokes)
        /\ NoDuplicates(chars)
        /\ NoDuplicates(bubs)
        /\ NoDuplicates(strks)
        /\ Range(bubs) = DOMAIN fontSize

(* C10 witness: one character is in the scene, one is held by an executed   *)
(* Delete command and one by an undone Add command.                         *)
C10_Witness ==
    /\ characters # <<>>
    /\ \E i \in 1..Len(undoStack) :
          undoStack[i].kind = "DeleteCharacter" /\ undoStack[i].payload # NULL
    /\ \E i \in 1..Len(redoStack) :
          redoStack[i].kind = "AddCharacter" /\ redoStack[i].payload # NULL

C12_UndoOfPendingOrUndoneIsNoOp ==
    (direct.op = "undo" /\ direct.was \in {"Pending", "Undone"}) =>
        /\ State = direct.before.state
        /\ direct.cmd = direct.before.cmd
        /\ ub = FALSE

(* C12 witness: undo() was called a second time on an AddStroke command    *)
(* that holds its stroke again, while another stroke is in the scene.      *)
C12_Witness ==
    /\ direct.op = "undo"
    /\ direct.was = "Undone"
    /\ direct.calls = 3
    /\ direct.cmd.kind = "AddStroke"
    /\ direct.cmd.payload # NULL
    /\ strokes # <<>>

(* C13: a Delete command whose index is negative or not below the length   *)
(* of its collection changes no collection when it is executed and takes   *)
(* no entity, and the undo() and the redo() that follow through the        *)
(* manager change no collection either; nothing undefined happens.         *)
C13_OutOfRangeDeleteIsNoOp ==
    LET c   == postExec.top
        old == TargetOf(c, preExec)
    IN  (/\ phase \in {"executed", "undone", "redone"}
         /\ IsDelete(c)
         /\ (c.index < 0 \/ c.index >= Len(old))) =>
            /\ Collections(State) = preExec
            /\ c.payload = NULL
            /\ phase \in {"executed", "redone"} =>
                  undoStack # <<>> /\ back(undoStack).payload = NULL
            /\ phase = "undone" =>
                  redoStack # <<>> /\ back(redoStack).payload = NULL
            /\ ub = FALSE

(* C13 witness: a DeleteBubble command with index = size() of a non-empty  *)
(* collection was executed, undone and redone.                              *)
C13_Witness ==
    /\ phase = "redone"
    /\ postExec.top.kind = "DeleteBubble"
    /\ preExec.bubbles # <<>>
    /\ postExec.top.index = Len(preExec.bubbles)
    /\ bubbles = preExec.bubbles

(* C14: for ChangeBubbleFontSizeCommand(bubble, oldSize, newSize) with a   *)
(* bubble, the bubble's font size is newSize after execute(), oldSize      *)
(* after the undo() that follows, and newSize again after the execute()    *)
(* by which the manager redoes it; with a null bubble execute() and undo() *)
(* change nothing.                                                          *)
C14_FontSizeCommandSetsSizes ==
    LET c == direct.cmd
    IN  c.kind = "ChangeBubbleFontSize" =>
            /\ (c.target # NULL /\ direct.op = "execute") =>
                  /\ c.target \in DOMAIN fontSize
                  /\ fontSize[c.target] = c.newFontSize
            /\ (c.target # NULL /\ direct.op = "undo" /\ direct.was = "Executed") =>
                  /\ c.target \in DOMAIN fontSize
                  /\ fontSize[c.target] = c.previousFontSize
            /\ (c.target = NULL /\ direct.op # "none") =>
                  State = direct.before.state

(* C14 witness: a command with oldSize and newSize different from each     *)
(* other and from the size the bubble had was executed, undone and         *)
(* executed again.                                                          *)
C14_Witness ==
    /\ direct.cmd.kind = "ChangeBubbleFontSize"
    /\ direct.cmd.target # NULL
    /\ direct.calls = 3
    /\ direct.op = "execute"
    /\ direct.was = "Undone"
    /\ direct.cmd.previousFontSize = 18
    /\ direct.cmd.newFontSize = 30
    /\ direct.before.state.fontSize[direct.cmd.target] = 18
    /\ fontSize[direct.cmd.target] = 30

(* the word-wrap of text to 0.8 x width with the given font size *)
WordWrap(text, width, size) ==
    wrapText([NoBubble EXCEPT !.text_ = text, !.width_ = width,
                              !.characterSize = size]).m_string

(* C15: when setText, setSize(w, h) or setFontSize returns, the displayed   *)
(* string is the word-wrap of the current raw text to 0.8 x the current     *)
(* width with the current font size, whatever the calls made before.        *)
C15_WrapFollowsCurrentState ==
    last.op \in {"setText", "setSize", "setFontSize"} =>
        bubble.m_string = WordWrap(bubble.text_, bubble.width_, bubble.fontSize_)

(* C15 witness: setFontSize returned on a bubble whose text is wrapped      *)
(* differently at the constructor's font size.                              *)
C15_Witness ==
    /\ last.op = "setFontSize"
    /\ bubble.fontSize_ # DefaultFontSize
    /\ bubble.m_string # WordWrap(bubble.text_, bubble.width_, DefaultFontSize)
    /\ bubble.m_string # bubble.text_

(* the polygon the builder of the bubble's style makes for its current size *)
PolygonForCurrentSize(b) == rebuild(b, b.width_, b.height_).m_shape

(* C16: when setSize(w, h) or setSize(Vector2f) returns, the polygon of a   *)
(* bubble drawn procedurally is the one built for the new size and the      *)
(* displayed string is the text wrapped to the new width.                   *)
C16_SizeChangeRebuildsAndRewraps ==
    last.op \in {"setSize", "setSizeVector2f"} =>
        /\ ~bubble.useImageBubble_ => bubble.m_shape = PolygonForCurrentSize(bubble)
        /\ bubble.m_string = WordWrap(bubble.text_, bubble.width_, bubble.fontSize_)

(* C17: the bubble is drawn procedurally after construction; when           *)
(* setStyle(s) returns, useImageBubble_ is true exactly if a texture is     *)
(* held under "bubble_" + s, whatever the flag was before, and a bubble     *)
(* left without image has the polygon of style s for its current size.      *)
C17_StyleDerivesImageFlag ==
    /\ last.op = "SpeechBubble" => ~bubble.useImageBubble_
    /\ last.op = "setStyle" =>
          /\ bubble.useImageBubble_ <=>
                 AssetManager_getTexture(textures, "bubble_" \o bubble.style_)
          /\ ~bubble.useImageBubble_ =>
                 bubble.m_shape = PolygonForCurrentSize(bubble)

(* C17 witness: setStyle("shout") returned on a bubble that was drawn from  *)
(* an image, after a resize made while it was.                              *)
C17_Witness ==
    /\ last.op = "setStyle"
    /\ last.hadImage
    /\ bubble.style_ = "shout"
    /\ ~bubble.useImageBubble_
    /\ bubble.m_bubbleSprite.has
    /\ bubble.m_shape.builder = "rebuildShout"
    /\ bubble.width_ = 60
    /\ bubble.m_shape.w = 60

(* the square of the distance of two points *)
Dist2(p, q) ==
    LET dx == RSub(q[1], p[1])
        dy == RSub(q[2], p[2])
    IN  RAdd(RMul(dx, dx), RMul(dy, dy))

(* max(thickness x 0.5, 0.5) *)
ClaimedSpacing ==
    IF RLe(<<1, 1>>, stroke.thickness_) THEN RMul(stroke.thickness_, <<1, 2>>)
    ELSE <<1, 2>>

Within(p, q, d) == RLe(Dist2(p, q), RMul(d, d))

IsPrefix(u, v) == Len(u) <= Len(v) /\ u = SubSeq(v, 1, Len(u))

(* C18: any two consecutive recorded points are at a distance of at most   *)
(* max(thickness x 0.5, 0.5); an addPoint whose point is farther than that  *)
(* from the last recorded point records ceil(dist / spacing) points, each   *)
(* one n-th of the way further, the last being the given point.             *)
C18_ConsecutivePointsWithinSpacing ==
    LET v == stroke.m_vertices
        d == ClaimedSpacing
    IN  /\ \A i \in 1..(Len(v) - 1) : Within(v[i], v[i + 1], d)
        /\ (/\ last.op = "addPoint"
            /\ last.before # <<>>
            /\ ~Within(back(last.before), last.pos, d)) =>
              LET from  == back(last.before)
                  m     == Len(last.before)
                  n     == Len(v) - m
                  dist2 == Dist2(from, last.pos)
                  step  == <<RDiv(RSub(last.pos[1], from[1]), <<n, 1>>),
                             RDiv(RSub(last.pos[2], from[2]), <<n, 1>>)>>
              IN  /\ n >= 2
                  /\ RLe(dist2, RMul(<<n * n, 1>>, RMul(d, d)))
                  /\ ~RLe(dist2, RMul(<<(n - 1) * (n - 1), 1>>, RMul(d, d)))
                  /\ v[m] = from
                  /\ back(v) = last.pos
                  /\ \A j \in 1..n :
                         v[m + j] = <<RAdd(v[m + j - 1][1], step[1]),
                                      RAdd(v[m + j - 1][2], step[2])>>

(* C18 witness: addPoint((3,1)) on a stroke of thickness 3 whose last point *)
(* was (0,0) recorded three points, the first of them off the pixel grid.   *)
C18_Witness ==
    /\ last.op = "addPoint"
    /\ stroke.thickness_ = <<3, 1>>
    /\ last.before # <<>>
    /\ back(last.before) = <<(<<0, 1>>), (<<0, 1>>)>>
    /\ last.pos = <<(<<3, 1>>), (<<1, 1>>)>>
    /\ Len(stroke.m_vertices) = Len(last.before) + 3
    /\ stroke.m_vertices[Len(last.before) + 1] = <<(<<1, 1>>), (<<1, 3>>)>>

(* C19 as claimed: the point sequence before every beginAt and addPoint     *)
(* call is a prefix of the sequence after it.                               *)
C19_PointsOnlyGrow ==
    last.op \in {"beginAt", "addPoint"} =>
        IsPrefix(last.before, stroke.m_vertices)

(* C19 amended: the point sequence before every addPoint call is a proper   *)
(* prefix of the sequence after it; beginAt leaves the one point given.     *)
C19_PointsGrowUntilBeginAt ==
    /\ last.op = "addPoint" =>
          /\ IsPrefix(last.before, stroke.m_vertices)
          /\ Len(stroke.m_vertices) > Len(last.before)
    /\ last.op = "beginAt" => stroke.m_vertices = <<last.pos>>

(* C19 witness: addPoint on a stroke of several points added several more *)
C19_Witness ==
    /\ last.op = "addPoint"
    /\ Len(last.before) >= 2
    /\ Len(stroke.m_vertices) >= Len(last.before) + 2
    /\ IsPrefix(last.before, stroke.m_vertices)

(* the least and the greatest of a non-empty set of rationals *)
RLeast(S) == CHOOSE m \in S : \A o \in S : RLe(m, o)
RGreatest(S) == CHOOSE m \in S : \A o \in S : RLe(o, m)

(* C20: a stroke with at least one recorded point has the bounding box      *)
(* (minX, minY, maxX - minX, maxY - minY) of its recorded points, also when *)
(* the size the polygon of the bubble was last built for, and the builder's *)
(* defaults                                                                 *)
IsRoundSpeech == ~bubble.useImageBubble_ /\ bubble.m_shape.builder = "rebuildSpeechRound"

(* C21: the round speech polygon has 4 x 6 + 3 = 27 vertices for every w    *)
(* and h; the builder assigns vertex 0..26 once each, in this order: three  *)
(* arcs of 6 points (0..17), the 3 tail points (18..20, the apex in the     *)
(* middle), the fourth arc of 6 points (21..26); the polygon holds exactly  *)
(* the points assigned.                                                     *)
C21_RoundPolygonHas27Vertices ==
    IsRoundSpeech =>
        LET w == bubble.m_shape.w
            h == bubble.m_shape.h
            writes == rebuildSpeechRound_writes(w, h, 12, 20, 10)
            points == bubble.m_shape.points
        IN  /\ Len(points) = 4 * 6 + 3
            /\ Len(points) = 27
            /\ Len(writes) = 27
            /\ \A i \in 0..26 :
                   Cardinality({k \in 1..Len(writes) : writes[k][1] = i}) = 1
            /\ \A k \in 1..27 : writes[k][1] = k - 1 /\ points[k] = writes[k][2]
            /\ points[20][2] = 1000 * (h + 20)
            /\ points[19][2] = 1000 * (h - 2) /\ points[21][2] = 1000 * (h - 2)
            /\ \A k \in (1..18) \cup (22..27) :
                   \E c \in {<<12, 12>>, <<w - 12, 12>>, <<w - 12, h - 12>>, <<12, h - 12>>} :
                       /\ Abs(points[k][1] - 1000 * c[1]) <= 12000
                       /\ Abs(points[k][2] - 1000 * c[2]) <= 12000

C21_Witness ==
    /\ IsRoundSpeech
    /\ last.op = "setStyle"
    /\ bubble.m_shape.w <= 0
    /\ Len(bubble.m_shape.points) = 27

(* C22: for every w > 0 and h > 0 every vertex (x, y) of the round speech   *)
(* polygon built with cornerRadius 12, tailLength 20, tailWidth 10 has      *)
(* -tailLength <= x <= w and -cornerRadius <= y <= h + tailLength.          *)
C22_RoundPolygonWithinBounds ==
    (IsRoundSpeech /\ bubble.m_shape.w > 0 /\ bubble.m_shape.h > 0) =>
        \A k \in 1..Len(bubble.m_shape.points) :
            LET p == bubble.m_shape.points[k]
            IN  /\ -(1000 * 20) <= p[1] /\ p[1] <= 1000 * bubble.m_shape.w
                /\ -(1000 * 12) <= p[2] /\ p[2] <= 1000 * (bubble.m_shape.h + 20)

(* the polygon rebuild makes for the bubble's style and the size w x h *)
PolygonOf(b, w, h) == rebuild(b, w, h).m_shape.points

(* C23: for a size with w <= 0 or h <= 0 every polygon builder produces the *)
(* polygon it produces with the offending dimension clamped to 1 px.        *)
C23_DegenerateSizesAreClamped ==
    (~bubble.useImageBubble_ /\ (bubble.m_shape.w <= 0 \/ bubble.m_shape.h <= 0)) =>
        bubble.m_shape.points =
            PolygonOf(bubble,
                      IF bubble.m_shape.w < 1 THEN 1 ELSE bubble.m_shape.w,
                      IF bubble.m_shape.h < 1 THEN 1 ELSE bubble.m_shape.h)

(* the pieces a word is cut into when at most k of its characters fit on a *)
(* line, joined by newlines                                                 *)
RECURSIVE SplitWord(_, _)
SplitWord(word, k) ==
    IF Len(word) <= k THEN word
    ELSE SubSeq(word, 1, k) \o <<"\n">> \o SplitWord(SubSeq(word, k + 1, Len(word)), k)

(* the number of characters of the longest run that measures at most        *)
(* 0.8 x width at the given advance per character; 0 when none fits         *)
FittingChars(width, advance) ==
    CHOOSE k \in 0..101 :
        /\ 10 * k * advance <= 8 * width
        /\ (10 * (k + 1) * advance > 8 * width \/ k = 101)

IsOneWord(text) == text # <<>> /\ \A i \in 1..Len(text) : text[i] \notin {" ", "\n"}

RECURSIVE Lines(_)
Lines(str) ==
    IF \A i \in 1..Len(str) : str[i] # "\n" THEN {str}
    ELSE LET n == CHOOSE i \in 1..Len(str) :
                      str[i] = "\n" /\ \A j \in 1..(i - 1) : str[j] # "\n"
         IN  {SubSeq(str, 1, n - 1)} \cup Lines(SubSeq(str, n + 1, Len(str)))

(* C25: for every text and width every line of wrapText's output measures   *)
(* at most maxWidth = 0.8 x width, unless the line is a single character    *)
(* that is itself wider than maxWidth.                                      *)
C25_EveryLineFits ==
    last.op = "setText" =>
        \A line \in Lines(bubble.m_string) :
            ExceedsMaxWidth(line, bubble) => Len(line) = 1

(* C28: clear() empties both logs, so that canUndo() and canRedo() are      *)
(* false and undo() and redo() change nothing afterwards; it leaves the     *)
(* three collections as they are, and the bubbles that cease to exist are   *)
(* exactly those the discarded commands held as payload.                    *)
C28_ClearEmptiesLogsKeepsScene ==
    /\ [][lastOp' = "clear" =>
            /\ undoStack' = <<>>
            /\ redoStack' = <<>>
            /\ UNCHANGED <<characters, bubbles, strokes, ub>>
            /\ DOMAIN fontSize' =
                   (DOMAIN fontSize) \ Held(State, {"AddBubble", "DeleteBubble"})
            /\ \A b \in DOMAIN fontSize' : fontSize'[b] = fontSize[b]
            /\ Range(bubbles) \subseteq DOMAIN fontSize']_vars
    /\ [](lastOp = "clear" =>
            /\ ~CommandManager_canUndo(State)
            /\ ~CommandManager_canRedo(State)
            /\ CommandManager_getUndoCount(State) = 0
            /\ CommandManager_getRedoCount(State) = 0
            /\ CommandManager_undo(State) = State
            /\ CommandManager_redo(State) = State)

(* C28 witness: clear() after two bubbles were added and the first deleted: *)
(* the second is still in the collection, the first went with its command.  *)
C28_Witness ==
    /\ lastOp = "clear"
    /\ nOps = 4
    /\ Len(bubbles) = 1
    /\ bubbles[1] # Fresh({})
    /\ DOMAIN fontSize = Range(bubbles)
    /\ undoStack = <<>>
    /\ redoStack = <<>>

(* the entity the resize gesture works on *)
Resized == IF editor.resizeKind = "Bubble" THEN bubble ELSE character

(* C30: each MouseMoved of a resize gesture gives the resized bubble or     *)
(* character the size (max(startW + dx, 60), max(startH + dy, 40)), startW  *)
(* and startH being its size and dx, dy the mouse's way since the press;    *)
(* its position is the one it had at the press; no entity is ever narrower  *)
(* than 60 or shorter than 40.                                              *)
C30_ResizeIsClampedAndKeepsPosition ==
    /\ last.resized =>
           LET start == last.atPress[editor.resizeKind]
               dx    == last.mouse[1] - last.pressMouse[1]
               dy    == last.mouse[2] - last.pressMouse[2]
               w     == IF start[3] + dx > 60 THEN start[3] + dx ELSE 60
               h     == IF start[4] + dy > 40 THEN start[4] + dy ELSE 40
           IN  /\ BoxOf(Resized) = <<start[1], start[2], w, h>>
               /\ Resized.m_size = <<w, h>>
               /\ Resized.m_position = <<start[1], start[2]>>
    /\ bubble.width_ >= 60 /\ bubble.height_ >= 40
    /\ character.width_ >= 60 /\ character.height_ >= 40

(* C30 witness: a resize of the bubble that hit the floor in both           *)
(* directions after the bubble had been dragged away from its spawn place   *)
C30_Witness ==
    /\ last.resized
    /\ editor.resizeKind = "Bubble"
    /\ bubble.m_size = <<60, 40>>
    /\ last.atPress.Bubble[3] = 280
    /\ bubble.m_position # <<SidebarW + 24, 24>>

(* the mouse positions a hit test is asked about: on and next to the        *)
(* borders of the boxes the objects take                                    *)
HitXs == {-1, 0, 1, 2, 3, 4, 64, 65, 223, 224, 254, 255, 284, 285, 444, 445, 504, 505}

HitYs == {-1, 0, 1, 2, 23, 24, 64, 65, 144, 145, 244, 245}

(* x <= mouseX <= x + width and y <= mouseY <= y + height *)
InBox(box, mouseX, mouseY) ==
    /\ box[1] <= mouseX /\ mouseX <= box[1] + box[3]
    /\ box[2] <= mouseY /\ mouseY <= box[2] + box[4]

(* the same for the box of a stroke *)
RInBox(box, mouseX, mouseY) ==
    /\ RLe(box[1], mouseX) /\ RLe(mouseX, RAdd(box[1], box[3]))
    /\ RLe(box[2], mouseY) /\ RLe(mouseY, RAdd(box[2], box[4]))

(* C26: isClicked of Character, SpeechBubble and BrushStroke is true        *)
(* exactly when x <= mouseX <= x + width and y <= mouseY <= y + height of   *)
(* the object's current logical box, borders included, whatever the         *)
(* rotation, the flip, the style and polygon, and the thickness are.        *)
C26_HitTestIsBoxContainment ==
    \A mouseX \in HitXs, mouseY \in HitYs :
        /\ character # NoCharacter =>
               (Character_isClicked(character, mouseX, mouseY)
                    <=> InBox(BoxOf(character), mouseX, mouseY))
        /\ bubble # NoBubble =>
               (SpeechBubble_isClicked(bubble, mouseX, mouseY)
                    <=> InBox(BoxOf(bubble), mouseX, mouseY))
        /\ stroke # NoStroke =>
               (BrushStroke_isClicked(stroke, <<mouseX, 1>>, <<mouseY, 1>>)
                    <=> RInBox(BoxOf(stroke), <<mouseX, 1>>, <<mouseY, 1>>))

(* C26 witness: a thought bubble of 60 x 40 at (224, 24) is hit on its      *)
(* lower right corner, which its polygon does not reach, and missed one     *)
(* pixel further right.                                                     *)
C26_Witness ==
    /\ bubble # NoBubble
    /\ bubble.style_ = "thought"
    /\ ~bubble.useImageBubble_
    /\ BoxOf(bubble) = <<224, 24, 60, 40>>
    /\ bubble.m_shape.w = 60
    /\ SpeechBubble_isClicked(bubble, 284, 64)
    /\ ~SpeechBubble_isClicked(bubble, 285, 64)

(* C27: setFlipped changes the flipped flag and nothing else: position,     *)
(* size, rotation, id, image key and expression stay, and isClicked answers *)
(* as before.                                                               *)
C27_FlipChangesOnlyTheFlag ==
    last.op = "setFlipped" =>
        /\ \E flipped \in BOOLEAN :
               character = [last.before EXCEPT !.flippedHorizontally_ = flipped]
        /\ BoxOf(character) = BoxOf(last.before)
        /\ character.m_position = last.before.m_position
        /\ character.m_size = last.before.m_size
        /\ character.rotationDegrees_ = last.before.rotationDegrees_
        /\ character.id_ = last.before.id_
        /\ character.imagePath_ = last.before.imagePath_
        /\ character.expression_ = last.before.expression_
        /\ \A mouseX \in HitXs, mouseY \in HitYs :
               Character_isClicked(character, mouseX, mouseY)
                   <=> Character_isClicked(last.before, mouseX, mouseY)

(* C27 witness: a rotated, renamed character away from the origin was       *)
(* flipped                                                                  *)
C27_Witness ==
    /\ last.op = "setFlipped"
    /\ isFlipped(character)
    /\ ~isFlipped(last.before)
    /\ character.rotationDegrees_ = 90
    /\ character.expression_ = "happy"
    /\ character.imagePath_ = "villain"
    /\ Character_isClicked(character, 444, 244)

(* C29: a bubble built while the font "actionman" is not loaded is not      *)
(* built: the constructor's error reaches the caller, no bubble exists      *)
(* more than before, no command is pushed, and the three collections and    *)
(* both logs are as they were.  A texture that is missing raises nothing:   *)
(* the bubble is spawned with the polygon of its style, and a character     *)
(* row without texture spawns nothing.                                      *)
C29_MissingFontThrowsMissingTextureDoesNot ==
    /\ last.op = "spawnBubble" /\ "actionman" \notin fonts =>
           /\ last.threw
           /\ State = last.before
           /\ bubble = last.bubbleBefore
           /\ DOMAIN fontSize = DOMAIN last.before.fontSize
    /\ last.op = "spawnBubble" /\ "actionman" \in fonts =>
           /\ ~last.threw
           /\ Len(bubbles) = Len(last.before.bubbles) + 1
           /\ back(undoStack).kind = "AddBubble"
           /\ bubble.style_ = last.key
           /\ ("bubble_" \o last.key) \notin textures =>
                  /\ ~bubble.useImageBubble_
                  /\ bubble.m_shape.points = PolygonOf(bubble, 280, 120)
    /\ last.op = "spawnCharacter" =>
           /\ ~last.threw
           /\ last.key \notin textures => State = last.before

(* C29 witness: a character was spawned and its command undone, and the     *)
(* font is missing at the click on a bubble row that follows                *)
C29_Witness ==
    /\ last.op = "spawnBubble"
    /\ last.threw
    /\ "actionman" \notin fonts
    /\ last.events = 3
    /\ redoStack # <<>>
    /\ bubbles = <<>>
    /\ State = last.before

(* the polygon the claimed builder of a style makes for w x h: the round    *)
(* speech polygon for every name but thought, shout and speech_rectangle    *)
ClaimedPolygon(style, w, h) ==
    CASE style = "thought" -> rebuildThought(<<>>, w, h)
      [] style = "shout" -> rebuildShout(<<>>, w, h)
      [] style = "speech_rectangle" -> rebuildSpeechBox(<<>>, w, h, 12, 20, 10)
      [] OTHER -> rebuildSpeechRound(<<>>, w, h, 12, 20, 10)

(* C31: after any sequence of setSize(w, h) and setStyle, styles with and   *)
(* without texture alternating, a bubble whose useImageBubble_ is false     *)
(* holds the polygon of its current style for its current width and height, *)
(* also when it was resized while it was drawn from an image.               *)
C31_PolygonFollowsStyleAndSize ==
    ~bubble.useImageBubble_ =>
        /\ bubble.m_shape.points =
               ClaimedPolygon(bubble.style_, bubble.width_, bubble.height_)
        /\ bubble.m_shape.w = bubble.width_
        /\ bubble.m_shape.h = bubble.height_

(* C31 witness: a bubble drawn from an image was resized, and then given a  *)
(* style without a texture and without a builder of its own                 *)
C31_Witness ==
    /\ last.op = "setStyle"
    /\ last.hadImage
    /\ last.stale
    /\ ~bubble.useImageBubble_
    /\ bubble.style_ = "plain"
    /\ bubble.m_shape.builder = "rebuildSpeechRound"
    /\ bubble.width_ = 60

(* the runs of str between the occurrences of sep, in order *)
RECURSIVE SplitOn(_, _)
SplitOn(str, sep) ==
    IF \A i \in 1..Len(str) : str[i] # sep THEN <<str>>
    ELSE LET n == CHOOSE i \in 1..Len(str) :
                      str[i] = sep /\ \A j \in 1..(i - 1) : str[j] # sep
         IN  <<SubSeq(str, 1, n - 1)>> \o SplitOn(SubSeq(str, n + 1, Len(str)), sep)

(* the strings of strs joined by sep *)
RECURSIVE Join(_, _)
Join(strs, sep) ==
    IF strs = <<>> THEN <<>>
    ELSE IF Len(strs) = 1 THEN strs[1]
    ELSE strs[1] \o <<sep>> \o Join(Tail(strs), sep)

(* the words of a paragraph: its non-empty runs between spaces *)
WordsOf(paragraph) ==
    LET runs == SplitOn(paragraph, " ")
    IN  SelectSeq(runs, LAMBDA r : r # <<>>)

(* the words of a text, paragraph after paragraph *)
RECURSIVE Flatten(_)
Flatten(seqs) == IF seqs = <<>> THEN <<>> ELSE Head(seqs) \o Flatten(Tail(seqs))

AllWords(text) ==
    Flatten([i \in 1..Len(SplitOn(text, "\n")) |-> WordsOf(SplitOn(text, "\n")[i])])

(* the reference greedy fill: line is the line being filled; a word goes on *)
(* it when line, a space and the word measure at most maxWidth, else the    *)
(* line is closed and the word begins the next                              *)
RECURSIVE GreedyFill(_, _, _)
GreedyFill(words, line, b) ==
    IF words = <<>> THEN (IF line = <<>> THEN <<>> ELSE <<line>>)
    ELSE IF line = <<>> THEN GreedyFill(Tail(words), Head(words), b)
    ELSE IF ~ExceedsMaxWidth(line \o <<" ">> \o Head(words), b)
         THEN GreedyFill(Tail(words), line \o <<" ">> \o Head(words), b)
    ELSE <<line>> \o GreedyFill(Tail(words), Head(words), b)

(* the reference wrap of a text: every paragraph filled greedily, its lines *)
(* joined by newlines, the paragraphs joined by the newlines of the text    *)
GreedyWrap(text, b) ==
    LET paragraphs == SplitOn(text, "\n")
    IN  Join([i \in 1..Len(paragraphs) |->
                 Join(GreedyFill(WordsOf(paragraphs[i]), <<>>, b), "\n")], "\n")

(* every word of the text measures at most maxWidth *)
WordsFit(text, b) ==
    \A i \in 1..Len(AllWords(text)) : ~ExceedsMaxWidth(AllWords(text)[i], b)

(* no space of the text is directly followed by a space or a newline *)
SinglySpaced(text) ==
    \A i \in 1..(Len(text) - 1) : text[i] = " " => text[i + 1] \notin {" ", "\n"}

(* the number of newlines of a string *)
Newlines(str) == Cardinality({i \in 1..Len(str) : str[i] = "\n"})

(* C32: for a text whose words each fit within maxWidth the wrapped text is *)
(* the reference greedy fill: no word is split, every line is the longest   *)
(* run of consecutive words, joined by single spaces, that measures at most *)
(* maxWidth, and every newline of the text breaks the line.                 *)
C32_WrapIsGreedyFill ==
    (last.op = "setText" /\ WordsFit(bubble.text_, bubble)) =>
        bubble.m_string = GreedyWrap(bubble.text_, bubble)

(* what does hold of the greedy fill: the wrapped text is the reference for *)
(* a text whose words each fit and in which no space is directly followed   *)
(* by a space or a newline; for every text whose words each fit no word is  *)
(* split and no newline is lost.                                            *)
GreedyFillWhenSinglySpaced ==
    (last.op = "setText" /\ WordsFit(bubble.text_, bubble)) =>
        /\ SinglySpaced(bubble.text_) =>
               bubble.m_string = GreedyWrap(bubble.text_, bubble)
        /\ AllWords(bubble.m_string) = AllWords(bubble.text_)
        /\ Newlines(bubble.m_string) >= Newlines(bubble.text_)

(* the characters of a string that are neither space nor newline, in order *)
Visible(str) == SelectSeq(str, LAMBDA c : c \notin {" ", "\n"})

(* C39: wrapText loses, doubles and reorders no visible character: the      *)
(* characters other than space and newline of the wrapped text are those of *)
(* the raw text, in the same order, for every text, also one with words     *)
(* wider than maxWidth; and getText gives the text that was set.            *)
C39_WrapKeepsVisibleCharacters ==
    last.op = "setText" =>
        /\ Visible(bubble.m_string) = Visible(last.text)
        /\ getText(bubble) = last.text

(* C39 witness: a text of two words, the second of which is split and       *)
(* follows the first on its line                                            *)
C39_Witness ==
    /\ last.op = "setText"
    /\ last.text = <<"a", " ", "b", "a", "b">>
    /\ bubble.m_string = <<"a", " ", "b", "\n", "a", "\n", "b">>
    /\ getText(bubble) = <<"a", " ", "b", "a", "b">>

(* the text anchor claimed for a bubble, in 1/100 pixel: the centre of its  *)
(* rectangle, moved by the bias of its style when it is drawn from an image *)
ClaimedAnchor(b) ==
    LET biasX == IF b.useImageBubble_ /\ b.style_ = "speech_round" THEN 5 ELSE 0
        biasY == IF ~b.useImageBubble_ THEN 0
                 ELSE CASE b.style_ = "speech" -> 15
                        [] b.style_ = "speech_round" -> 10
                        [] b.style_ = "thought" -> 8
                        [] b.style_ = "speech_rectangle" -> 12
                        [] OTHER -> 0
    IN  <<100 * b.x_ + 50 * b.width_ - biasX * b.width_,
          100 * b.y_ + 50 * b.height_ - biasY * b.height_>>

(* C40: when setSize(w, h), setText, setFontSize or setStyle returns, the   *)
(* text anchor is the centre of the bubble's rectangle moved by the bias of *)
(* its current style and rendering mode: for an image bubble 0.15 h up for  *)
(* speech, 0.10 h up and 0.05 w left for speech_round, 0.08 h up for        *)
(* thought, 0.12 h up for speech_rectangle; no bias for a procedural one.   *)
C40_AnchorFollowsStyle ==
    last.op \in {"setSize", "setText", "setFontSize", "setStyle"} =>
        bubble.textPosition = ClaimedAnchor(bubble)

(* the rendering state of a canvas object mirrors its logical state *)
Mirrored(o) ==
    /\ o.m_position = <<o.x_, o.y_>>
    /\ o.m_size = <<o.width_, o.height_>>

(* C33: after any sequence of move, setPosition, setSize and setRotation in *)
(* either overload, and of beginAt and addPoint on a stroke, m_position is  *)
(* (x_, y_), m_size is (width_, height_), and the mirrored rotation is      *)
(* rotationDegrees_.                                                        *)
C33_RenderingStateMirrorsLogicalState ==
    /\ character # NoCharacter =>
           /\ Mirrored(character)
           /\ character.m_rotationDegrees_sfml = character.rotationDegrees_
    /\ bubble # NoBubble => Mirrored(bubble)
    /\ Mirrored(stroke)

(* C33 witness: a character that was turned and resized has just been moved *)
(* by a vector to a place no setPosition gave it                            *)
C33_Witness ==
    /\ character # NoCharacter
    /\ last.op = "moveVector2f"
    /\ character.rotationDegrees_ = 90
    /\ character.m_size # last.before.m_size \/ character.width_ = 220
    /\ character.x_ \notin {0, SidebarW + 24}
    /\ character.m_position = <<last.before.x_ + 112, last.before.y_ + 12>>

(* addPoint was called without a beginAt before.                            *)
C20_BoundingBoxIsMinMax ==
    LET v  == stroke.m_vertices
        xs == {v[i][1] : i \in 1..Len(v)}
        ys == {v[i][2] : i \in 1..Len(v)}
    IN  v # <<>> =>
            /\ stroke.x_ = RLeast(xs)
            /\ stroke.y_ = RLeast(ys)
            /\ stroke.width_ = RSub(RGreatest(xs), RLeast(xs))
            /\ stroke.height_ = RSub(RGreatest(ys), RLeast(ys))

NoUndefinedBehaviour == ub = FALSE

-----------------------------------------------------------------------------
(* The manager's calls as steps: the command a step runs execute() or       *)
(* undo() of, taken from the logs before the step.                          *)

RunsUndo == lastOp' = "undo" /\ CommandManager_canUndo(State)
RunsRedo == lastOp' = "redo" /\ CommandManager_canRedo(State)
RunsExecuteCommand == lastOp' = "execute"

IsFontSize(c) == c.kind = "ChangeBubbleFontSize" /\ c.target # NULL

(* the bubble exists and is an element of the bubbles collection *)
InBubbles(b) == b \in DOMAIN fontSize /\ b \in Range(bubbles)

(* C34: whenever the manager runs undo() (in undo) or execute() (in redo    *)
(* and in executeCommand) of a font-size command with a target, the target  *)
(* bubble exists and is an element of bubbles at that moment; font-size     *)
(* commands are built for a bubble of the collection (or for nullptr).      *)
C34_FontSizeTargetIsInScene ==
    /\ [][RunsUndo /\ IsFontSize(back(undoStack))
            => InBubbles(back(undoStack).target)]_vars
    /\ [][RunsRedo /\ IsFontSize(back(redoStack))
            => InBubbles(back(redoStack).target)]_vars
    /\ [][RunsExecuteCommand /\ IsFontSize(back(undoStack'))
            => InBubbles(back(undoStack').target)]_vars

(* C34 witness: on a full history, executeCommand of a font-size command    *)
(* evicted the command that had added its bubble, and undo() has undone the *)
(* font-size command                                                        *)
C34_Witness ==
    /\ lastOp = "undo"
    /\ Len(redoStack) = 1
    /\ IsFontSize(back(redoStack))
    /\ ~back(redoStack).isExecuted
    /\ back(redoStack).newFontSize # back(redoStack).previousFontSize
    /\ bubbles = <<back(redoStack).target>>
    /\ fontSize[back(redoStack).target] = back(redoStack).previousFontSize
    /\ \A i \in 1..Len(undoStack) : undoStack[i].kind # "AddBubble"
    /\ Len(undoStack) = maxHistorySize - 1

(* the command executeCommand was given did nothing: a Delete command with  *)
(* an index outside the collection, a font-size command without a bubble    *)
DidNothing(c) ==
    \/ c.kind = "DeleteCharacter" /\ (c.index < 0 \/ c.index >= Len(characters))
    \/ c.kind = "DeleteBubble" /\ (c.index < 0 \/ c.index >= Len(bubbles))
    \/ c.kind = "ChangeBubbleFontSize" /\ c.target = NULL

(* C35: executeCommand of a command whose execute() changes nothing (a      *)
(* Delete with an index out of range, a font-size change of a null bubble)  *)
(* appends the command to the undo log, which grows by one or, when it held *)
(* maxHistorySize commands, loses its oldest entry; canUndo() is true, the  *)
(* redo log is empty and the scene is unchanged.                            *)
C35_NoOpCommandIsRecorded ==
    [][RunsExecuteCommand /\ DidNothing(back(undoStack')) =>
          /\ CommandManager_canUndo(State')
          /\ ~back(undoStack').isExecuted
          /\ IF Len(undoStack) < maxHistorySize
             THEN /\ pop_back(undoStack') = undoStack
                  /\ CommandManager_getUndoCount(State') =
                         CommandManager_getUndoCount(State) + 1
             ELSE /\ pop_back(undoStack') = Tail(undoStack)
                  /\ CommandManager_getUndoCount(State') = maxHistorySize
          /\ redoStack' = <<>>
          /\ Scene(State') = Scene(State)]_vars

(* C35 witness: a Delete command with an index out of range has just been   *)
(* recorded on a log that held maxHistorySize commands, the oldest of which *)
(* was evicted                                                              *)
C35_Witness ==
    /\ lastOp = "execute"
    /\ nOps = 1
    /\ back(undoStack).kind = "DeleteBubble"
    /\ back(undoStack).index = Len(bubbles)
    /\ bubbles # <<>>
    /\ ~back(undoStack).isExecuted
    /\ Len(undoStack) = maxHistorySize
    /\ undoStack[1].id = 2

(* C36: whenever the manager runs undo() of an executed Delete command, the *)
(* command's index is at least 0 and at most the length of its collection.  *)
C36_DeleteUndoIndexInRange ==
    [][RunsUndo /\ IsDelete(back(undoStack)) /\ back(undoStack).isExecuted =>
          /\ back(undoStack).index >= 0
          /\ back(undoStack).index <= Len(TargetOf(back(undoStack), State))]_vars

(* C36 witness: a character was deleted from the middle of the collection,  *)
(* and undo() has put it back                                               *)
C36_Witness ==
    /\ lastOp = "undo"
    /\ redoStack # <<>>
    /\ back(redoStack).kind = "DeleteCharacter"
    /\ back(redoStack).index = 1
    /\ ~back(redoStack).isExecuted
    /\ back(redoStack).payload = NULL
    /\ Len(characters) = 3

-----------------------------------------------------------------------------
(* The editing session *)

(* C37: whenever MouseMoved accesses bubbles[resizeIndex],                  *)
(* characters[resizeIndex], characters[dragSpriteIdx] or                    *)
(* bubbles[dragBubbleIdx], the index is below the length of the collection  *)
(* and the element is the entity the resize or the drag began on, whatever  *)
(* undo, redo or delete happened while the button was held.                 *)
C37_GestureIndexDenotesGrabbedEntity ==
    last.op = "MouseMoved" =>
        \A a \in last.touched :
            /\ a.inRange
            /\ [kind |-> a.kind, id |-> a.id] \in last.grabbed

(* the bubbles an event changed the text, the font or the font size of *)
Receivers ==
    {b \in (DOMAIN bubble) \cap (DOMAIN bubble') :
        bubble'[b] # bubble[b] \/ fontSize'[b] # fontSize[b]}

TypingEvents ==
    {"TextEntered", "Backspace", "fontItem", "textSizeBar", "MouseMoved",
     "MouseButtonReleased"}

(* C38: in every state of a session activeBubble is null or a bubble that   *)
(* exists and is an element of bubbles, and an event that types text,       *)
(* deletes a character of text or changes the font or the font size changes *)
(* no bubble other than activeBubble.                                       *)
C38_ActiveBubbleIsInScene ==
    /\ [](editor.activeBubble = NULL \/ InBubbles(editor.activeBubble))
    /\ [][last'.op \in TypingEvents =>
             /\ Receivers \subseteq {editor.activeBubble}
             /\ Receivers \subseteq Range(bubbles)]_vars

(* C38 witness: a bubble was deleted while it was the active one and its    *)
(* command holds it; then another bubble was picked and a character typed   *)
(* into it                                                                  *)
C38_Witness ==
    /\ last.op = "TextEntered"
    /\ editor.activeBubble # NULL
    /\ bubble[editor.activeBubble].text_ = <<"a">>
    /\ \E c \in Range(undoStack) :
           /\ c.kind = "DeleteBubble"
           /\ c.isExecuted
           /\ c.payload \notin Range(bubbles)
           /\ bubble[c.payload].text_ = <<>>
    /\ Len(bubbles) = 1

=============================================================================
